---------------------------- MODULE Spec2Model ----------------------------
(***************************************************************************)
(* Position addressing, tree filtering and canonical ordering of the       *)
(* regulation catalogue (backend/app/services/entity.py and                *)
(* backend/app/services/data_services.py).                                 *)
(*                                                                         *)
(* JSON values are tagged records:                                         *)
(*   atom  [t |-> "atom", a |-> <string>,  c |-> <<>>]                     *)
(*   None  [t |-> "none", a |-> "None",    c |-> <<>>]                     *)
(*   bool  [t |-> "bool", a |-> "True" / "False", c |-> <<>>]              *)
(*   list  [t |-> "list", a |-> "", c |-> <<node, ...>>]                   *)
(*   dict  [t |-> "dict", a |-> "", c |-> <<[k |-> key, v |-> node], ..>>] *)
(* A dict keeps its keys in insertion order, as a Python dict does.        *)
(* A text (a position number as typed by a caller) is a sequence of        *)
(* one-character strings.                                                  *)
(***************************************************************************)
EXTENDS Integers, Sequences, FiniteSets, TLC

VARIABLES
    root,   \* the JSON document (or payload) the caller holds
    call,   \* the last call made: its operation and its arguments
    out,    \* what the last call returned
    err,    \* the exception the last call raised ("" when it returned)
    text,   \* the position-number text the caller holds
    rows    \* the rows of the regulations table

vars == <<root, call, out, err, text, rows>>

----------------------------------------------------------------------------
(* Bounds of the model.                                                    *)

MaxTextLen == 7

\* keys of a generated dict
MaxKeys == 4

\* a document nested deeper than this is not nested further
MaxDepth == 1

\* ULGs of a generated LG
MaxUlgs == 2

\* Grundtexts of a generated LG, over all its ULGs
MaxGts == 2

\* positions (Folgepositionen and undivided positions) of a generated LG
MaxFps == 2

\* full position numbers in one call
MaxCodes == 2

----------------------------------------------------------------------------
(* JSON values and the Python dict operations used by the code.            *)

Atom(s) == [t |-> "atom", a |-> s, c |-> <<>>]

NoneV == [t |-> "none", a |-> "None", c |-> <<>>]

Bool(b) == [t |-> "bool", a |-> IF b THEN "True" ELSE "False", c |-> <<>>]

List(items) == [t |-> "list", a |-> "", c |-> items]

Dict(pairs) == [t |-> "dict", a |-> "", c |-> pairs]

EmptyDict == Dict(<<>>)

KV(key, val) == [k |-> key, v |-> val]

IsDict(n) == n.t = "dict"

IsList(n) == n.t = "list"

\* key in d
Has(d, key) == IsDict(d) /\ \E i \in DOMAIN d.c : d.c[i].k = key

\* d.get(key): None when the key is absent
Get(d, key) ==
    IF Has(d, key)
    THEN d.c[CHOOSE i \in DOMAIN d.c : d.c[i].k = key].v
    ELSE NoneV

\* d.get(key, default)
GetOr(d, key, default) == IF Has(d, key) THEN Get(d, key) ELSE default

\* d[key] = val: an existing key keeps its place, a new key goes last
Put(d, key, val) ==
    IF Has(d, key)
    THEN Dict([i \in DOMAIN d.c |-> IF d.c[i].k = key THEN KV(key, val) ELSE d.c[i]])
    ELSE Dict(Append(d.c, KV(key, val)))

\* str(x) of an atom or of None
Str(n) == n.a

\* bool(x) for the values the code tests: empty dict, empty list and None are false
Truthy(n) ==
    CASE n.t = "none" -> FALSE
      [] n.t = "bool" -> n.a = "True"
      [] n.t = "atom" -> n.a # ""
      [] OTHER -> n.c # <<>>

Keys(d) == [i \in DOMAIN d.c |-> d.c[i].k]

\* the concatenation of a sequence of sequences
RECURSIVE Flatten(_)
Flatten(seqs) == IF seqs = <<>> THEN <<>> ELSE Head(seqs) \o Flatten(Tail(seqs))

RemoveAt(seq, j) == SubSeq(seq, 1, j - 1) \o SubSeq(seq, j + 1, Len(seq))

----------------------------------------------------------------------------
(* Position numbers: validate_position_number_format, get_position_info.   *)

Digits == {"0", "1", "2", "3", "4", "5", "6", "7", "8", "9"}

Uppers == {"A", "B", "C", "D", "E", "F", "G", "H", "I", "J", "K", "L", "M",
           "N", "O", "P", "Q", "R", "S", "T", "U", "V", "W", "X", "Y", "Z"}

\* the characters a caller types in the model: two digits, an upper-case
\* letter, a lower-case letter and a line feed
Alphabet == {"0", "1", "A", "a", "\n"}

RECURSIVE Join(_)
Join(s) == IF s = <<>> THEN "" ELSE Head(s) \o Join(Tail(s))

NoMatch == [ok |-> FALSE, groups |-> <<>>]

\* re.match(r"^(\d{2})(\d{2})(\d{2})([A-Z]?)$", s): six digits, greedily an
\* optional upper-case letter, then "$", which Python matches at the end of the
\* string and also just before a line feed that ends the string.
ReMatch(s) ==
    LET n == Len(s) IN
    IF n >= 6 /\ \A i \in 1..6 : s[i] \in Digits
    THEN LET hasLetter == n >= 7 /\ s[7] \in Uppers
             pos == IF hasLetter THEN 8 ELSE 7
             atEnd == pos = n + 1 \/ (pos = n /\ s[n] = "\n")
         IN  IF atEnd
             THEN [ok |-> TRUE,
                   groups |-> <<Join(SubSeq(s, 1, 2)), Join(SubSeq(s, 3, 4)),
                                Join(SubSeq(s, 5, 6)),
                                IF hasLetter THEN s[7] ELSE "">>]
             ELSE NoMatch
    ELSE NoMatch

validate_position_number_format(s) == ReMatch(s).ok

get_position_info(s) ==
    IF ~validate_position_number_format(s) THEN EmptyDict
    ELSE LET m == ReMatch(s) IN
         IF ~m.ok THEN EmptyDict
         ELSE Dict(<<KV("lg_nr", Atom(m.groups[1])),
                     KV("ulg_nr", Atom(m.groups[2])),
                     KV("grundtext_nr", Atom(m.groups[3])),
                     KV("folgeposition",
                        IF m.groups[4] # "" THEN Atom(m.groups[4]) ELSE NoneV),
                     KV("is_full_grundtext", Bool(m.groups[4] = ""))>>)

----------------------------------------------------------------------------
(* Canonical key order: KEY_ORDER_MAP, _get_object_type,                   *)
(* _preserve_json_order.                                                   *)

KEY_ORDER_MAP(type) ==
    CASE type = "LG" -> <<"lg-eigenschaften", "ulg-liste", "@_nr">>
      [] type = "ULG" -> <<"ulg-eigenschaften", "positionen", "@_nr">>
      [] type = "GT" -> <<"grundtext", "ungeteilteposition", "folgeposition", "@_nr">>
      [] type = "POS" -> <<"pos-eigenschaften", "@_ftnr", "@_mfv">>
      [] OTHER -> <<>>

_get_object_type(obj) ==
    IF Has(obj, "@_nr") /\ Has(obj, "lg-eigenschaften") THEN "LG"
    ELSE IF Has(obj, "@_nr") /\ Has(obj, "ulg-eigenschaften") THEN "ULG"
    ELSE IF Has(obj, "@_nr") /\ (Has(obj, "grundtext") \/ Has(obj, "ungeteilteposition")
                                   \/ Has(obj, "folgeposition")) THEN "GT"
    ELSE IF (Has(obj, "@_ftnr") \/ Has(obj, "@_mfv")) /\ Has(obj, "pos-eigenschaften")
         THEN "POS"
    ELSE "UNKNOWN"

Range(s) == {s[i] : i \in DOMAIN s}

Reverse(s) == [i \in DOMAIN s |-> s[Len(s) + 1 - i]]

\* the keys of the original object that the predefined order has not placed,
\* in their original order
RemainingKeysReversed(obj, placed) ==
    Reverse(SelectSeq(Keys(obj), LAMBDA key : key \notin Range(placed)))

RemainingKeys(obj, placed) ==
    SelectSeq(Keys(obj), LAMBDA key : key \notin Range(placed))

\* an order that leaves out the keys the predefined order does not name
KeyOrderPredefinedOnly(obj) ==
    LET predefined_order == KEY_ORDER_MAP(_get_object_type(obj))
    IN  IF predefined_order # <<>>
        THEN SelectSeq(predefined_order, LAMBDA key : Has(obj, key))
        ELSE Keys(obj)

\* the order in which _preserve_json_order emits the keys of a dict
KeyOrder(obj) ==
    LET predefined_order == KEY_ORDER_MAP(_get_object_type(obj))
        placed == SelectSeq(predefined_order, LAMBDA key : Has(obj, key))
    IN  IF predefined_order # <<>>
        THEN placed \o RemainingKeys(obj, placed)
        ELSE Keys(obj)

RECURSIVE _preserve_json_order(_)
_preserve_json_order(obj) ==
    IF IsDict(obj)
    THEN LET order == KeyOrder(obj)
         IN  Dict([i \in DOMAIN order |->
                     KV(order[i], _preserve_json_order(Get(obj, order[i])))])
    ELSE IF IsList(obj)
    THEN List([i \in DOMAIN obj.c |-> _preserve_json_order(obj.c[i])])
    ELSE obj

----------------------------------------------------------------------------
(* filter_json_entity: keep one entity of a document.                      *)

\* the index of the last element of seq that is in matching, 0 when none is
LastIndex(seq, matching) ==
    IF \E i \in DOMAIN seq : seq[i] \in matching
    THEN CHOOSE i \in DOMAIN seq :
             seq[i] \in matching /\ \A j \in (i + 1)..Len(seq) : seq[j] \notin matching
    ELSE 0

\* the index of the first element of seq that is in matching, 0 when none is
FirstIndex(seq, matching) ==
    IF \E i \in DOMAIN seq : seq[i] \in matching
    THEN CHOOSE i \in DOMAIN seq :
             seq[i] \in matching /\ \A j \in 1..(i - 1) : seq[j] \notin matching
    ELSE 0

\* a search that leaves the list as it is once it has found the entity
FindAndKeepList(entity_list, key_name, value_to_find) ==
    LET i == FirstIndex(entity_list.c, {e \in Range(entity_list.c) : Str(Get(e, key_name)) = value_to_find})
    IN  IF i = 0 THEN List(<<>>) ELSE entity_list

\* a search that leaves the list as it is when it finds nothing
FindOrKeepList(entity_list, key_name, value_to_find) ==
    LET i == FirstIndex(entity_list.c, {e \in Range(entity_list.c) : Str(Get(e, key_name)) = value_to_find})
    IN  IF i = 0 THEN entity_list ELSE List(<<entity_list.c[i]>>)

\* the list holding the first entity whose key_name is value_to_find, or the
\* empty list
_find_and_filter_single(entity_list, key_name, value_to_find) ==
    LET i == FirstIndex(entity_list.c, {e \in Range(entity_list.c) : Str(Get(e, key_name)) = value_to_find})
    IN  IF i = 0 THEN List(<<>>) ELSE List(<<entity_list.c[i]>>)

\* the scope is never looked at
NeverSkipped(entity, scope) == FALSE

\* "target_ulg_nr is not None and str(ulg.get('@_nr')) != target_ulg_nr"
Skipped(entity, scope) == scope # NoneV /\ Str(Get(entity, "@_nr")) # Str(scope)

\* a Grundtext of the inner loop that holds the target Folgeposition
GtHoldsFp(gt, target_value, target_grundtext_nr) ==
    /\ ~Skipped(gt, target_grundtext_nr)
    /\ Has(gt, "folgeposition")
    /\ _find_and_filter_single(Get(gt, "folgeposition"), "@_ftnr", target_value).c # <<>>

\* the Grundtext list a document's inner loop keeps: the first Grundtext that
\* holds the target Folgeposition, cut to that Folgeposition, or nothing
FilteredGrundtexts(ulg, target_value, target_grundtext_nr) ==
    IF Has(ulg, "positionen") /\ Has(Get(ulg, "positionen"), "grundtextnr")
    THEN LET gts == Get(Get(ulg, "positionen"), "grundtextnr").c
             i == FirstIndex(gts, {gt \in Range(gts) : GtHoldsFp(gt, target_value, target_grundtext_nr)})
         IN  IF i = 0 THEN <<>>
             ELSE <<Put(gts[i], "folgeposition",
                        _find_and_filter_single(Get(gts[i], "folgeposition"),
                                                "@_ftnr", target_value))>>
    ELSE <<>>

\* a ULG of the loop over ULGs that holds the target Grundtext
UlgHoldsGt(ulg, target_value, target_ulg_nr) ==
    /\ ~Skipped(ulg, target_ulg_nr)
    /\ Has(ulg, "positionen") /\ Has(Get(ulg, "positionen"), "grundtextnr")
    /\ _find_and_filter_single(Get(Get(ulg, "positionen"), "grundtextnr"),
                               "@_nr", target_value).c # <<>>

\* a ULG of the loop over ULGs that holds the target Folgeposition
UlgHoldsFp(ulg, target_value, target_ulg_nr, target_grundtext_nr) ==
    /\ ~Skipped(ulg, target_ulg_nr)
    /\ FilteredGrundtexts(ulg, target_value, target_grundtext_nr) # <<>>

SetGrundtexts(ulg, gts) ==
    Put(ulg, "positionen", Put(Get(ulg, "positionen"), "grundtextnr", List(gts)))

\* the ULG list is left as it is
SetUlgsIgnored(lg, ulgs) == lg

SetUlgs(lg, ulgs) ==
    Put(lg, "ulg-liste", Put(Get(lg, "ulg-liste"), "ulg", List(ulgs)))

\* "ulg['positionen']['grundtextnr'] = ...; filtered_ulgs_to_keep.append(ulg)"
\* for the ULG the loop stands on
KeptUlgFirstOfList(ulgs, i, gts) == <<SetGrundtexts(ulgs[1], gts)>>

KeptUlg(ulgs, i, gts) == <<SetGrundtexts(ulgs[i], gts)>>

FilterLg(json_input, target_entity_type, target_value, target_ulg_nr, target_grundtext_nr) ==
    LET has_ulgs == Has(json_input, "ulg-liste") /\ Has(Get(json_input, "ulg-liste"), "ulg")
        ulgs == IF has_ulgs THEN Get(Get(json_input, "ulg-liste"), "ulg").c ELSE <<>>
    IN
    CASE target_entity_type = "ULG" ->
           IF has_ulgs
           THEN SetUlgs(json_input,
                        _find_and_filter_single(List(ulgs), "@_nr", target_value).c)
           ELSE IF Has(json_input, "ulg-liste")
                THEN SetUlgs(json_input, <<>>)
                ELSE Put(json_input, "ulg-liste", Dict(<<KV("ulg", List(<<>>))>>))
      [] target_entity_type = "Grundtext" ->
           LET i == FirstIndex(ulgs, {ulg \in Range(ulgs) : UlgHoldsGt(ulg, target_value, target_ulg_nr)})
           IN  SetUlgs(json_input,
                       IF i = 0 THEN <<>>
                       ELSE KeptUlg(ulgs, i,
                                _find_and_filter_single(
                                    Get(Get(ulgs[i], "positionen"), "grundtextnr"),
                                    "@_nr", target_value).c))
      [] target_entity_type = "Folgeposition" ->
           LET i == FirstIndex(ulgs, {ulg \in Range(ulgs) : UlgHoldsFp(ulg, target_value, target_ulg_nr, target_grundtext_nr)})
           IN  SetUlgs(json_input,
                       IF i = 0 THEN <<>>
                       ELSE KeptUlg(ulgs, i,
                                FilteredGrundtexts(ulgs[i], target_value,
                                                   target_grundtext_nr)))
      [] OTHER -> json_input

FilterUlg(json_input, target_entity_type, target_value, target_grundtext_nr) ==
    CASE target_entity_type = "Grundtext" ->
           IF Has(json_input, "positionen")
              /\ Has(Get(json_input, "positionen"), "grundtextnr")
           THEN SetGrundtexts(json_input,
                    _find_and_filter_single(
                        Get(Get(json_input, "positionen"), "grundtextnr"),
                        "@_nr", target_value).c)
           ELSE IF Has(json_input, "positionen")
                THEN SetGrundtexts(json_input, <<>>)
                ELSE Put(json_input, "positionen", Dict(<<KV("grundtextnr", List(<<>>))>>))
      [] target_entity_type = "Folgeposition" ->
           SetGrundtexts(json_input,
                         FilteredGrundtexts(json_input, target_value, target_grundtext_nr))
      [] OTHER -> json_input

FilterGrundtextAnyTarget(json_input, target_entity_type, target_value) ==
    IF Has(json_input, "folgeposition")
    THEN Put(json_input, "folgeposition",
             _find_and_filter_single(Get(json_input, "folgeposition"),
                                     "@_ftnr", target_value))
    ELSE Put(json_input, "folgeposition", List(<<>>))

FilterGrundtext(json_input, target_entity_type, target_value) ==
    IF target_entity_type = "Folgeposition"
    THEN IF Has(json_input, "folgeposition")
         THEN Put(json_input, "folgeposition",
                  _find_and_filter_single(Get(json_input, "folgeposition"),
                                          "@_ftnr", target_value))
         ELSE Put(json_input, "folgeposition", List(<<>>))
    ELSE json_input

is_lg(json) == Has(json, "lg-eigenschaften") /\ Has(json, "ulg-liste")

is_ulg(json) == Has(json, "ulg-eigenschaften") /\ Has(json, "positionen")

is_grundtext(json) == Has(json, "grundtext") /\ Has(json, "folgeposition")

\* the value returned and the exception raised ("" for none: the function
\* raises nothing, it prints and returns json_input for an invalid target type
\* and for an unrecognized document)
filter_json_entity(json_input, target_entity_type, target_value, target_ulg_nr, target_grundtext_nr) ==
    IF is_lg(json_input)
    THEN [val |-> FilterLg(json_input, target_entity_type, target_value,
                           target_ulg_nr, target_grundtext_nr), err |-> ""]
    ELSE IF is_ulg(json_input)
    THEN [val |-> FilterUlg(json_input, target_entity_type, target_value,
                            target_grundtext_nr), err |-> ""]
    ELSE IF is_grundtext(json_input)
    THEN [val |-> FilterGrundtext(json_input, target_entity_type, target_value),
          err |-> ""]
    ELSE [val |-> json_input, err |-> ""]

----------------------------------------------------------------------------
(* filter_json_by_full_nr: keep a list of full position numbers of an LG.  *)

\* json.get("ulg-liste", {}).get("ulg", [])
UlgsOf(json) == GetOr(GetOr(json, "ulg-liste", EmptyDict), "ulg", List(<<>>)).c

\* ulg.get("positionen", {}).get("grundtextnr", [])
GrundtexteOf(ulg) == GetOr(GetOr(ulg, "positionen", EmptyDict), "grundtextnr", List(<<>>)).c

\* gt.get("folgeposition", [])
FolgepositionenOf(gt) == GetOr(gt, "folgeposition", List(<<>>)).c

HasNr(entity, nr) == Str(Get(entity, "@_nr")) = nr

\* the first Folgeposition of target_gt with the letter, as a list of none or one
MatchingFp(target_gt, fp_letter) ==
    LET fps == FolgepositionenOf(target_gt)
        i == FirstIndex(fps, {fp \in Range(fps) : Get(fp, "@_ftnr") = Atom(fp_letter)})
    IN  IF i = 0 THEN <<>> ELSE <<fps[i]>>

\* a Folgeposition is wanted and the Grundtext is already in the result: the
\* Folgeposition is appended unless its letter is already there
AddFolgepositionUnchecked(existing_gt, target_gt, fp_letter) ==
    IF MatchingFp(target_gt, fp_letter) # <<>>
    THEN Put(existing_gt, "folgeposition",
             List(FolgepositionenOf(existing_gt) \o MatchingFp(target_gt, fp_letter)))
    ELSE existing_gt

AddFolgeposition(existing_gt, target_gt, fp_letter) ==
    IF \E i \in DOMAIN FolgepositionenOf(existing_gt) :
           Get(FolgepositionenOf(existing_gt)[i], "@_ftnr") = Atom(fp_letter)
    THEN existing_gt
    ELSE IF MatchingFp(target_gt, fp_letter) # <<>>
    THEN Put(existing_gt, "folgeposition",
             List(FolgepositionenOf(existing_gt) \o MatchingFp(target_gt, fp_letter)))
    ELSE existing_gt

\* a Folgeposition is wanted and the Grundtext is not yet in the result
NewGtAllFolgepositionen(target_gt, fp_letter) == target_gt

NewGtWithFolgeposition(target_gt, fp_letter) ==
    Put(target_gt, "folgeposition", List(MatchingFp(target_gt, fp_letter)))

\* a Grundtext new to the result is put before the ones already there
GrundtexteAfterPrepending(result_gts, target_gt, gt_nr, fp_letter) ==
    LET e == FirstIndex(result_gts, {gt \in Range(result_gts) : HasNr(gt, gt_nr)})
    IN  IF fp_letter # ""
        THEN IF e # 0
             THEN [result_gts EXCEPT ![e] = AddFolgeposition(@, target_gt, fp_letter)]
             ELSE <<NewGtWithFolgeposition(target_gt, fp_letter)>> \o result_gts
        ELSE IF e = 0 THEN <<target_gt>> \o result_gts ELSE result_gts

\* a whole-Grundtext number replaces the copy that is already in the result
GrundtexteAfterUpgrading(result_gts, target_gt, gt_nr, fp_letter) ==
    LET e == FirstIndex(result_gts, {gt \in Range(result_gts) : HasNr(gt, gt_nr)})
    IN  IF fp_letter # ""
        THEN IF e # 0
             THEN [result_gts EXCEPT ![e] = AddFolgeposition(@, target_gt, fp_letter)]
             ELSE Append(result_gts, NewGtWithFolgeposition(target_gt, fp_letter))
        ELSE IF e = 0 THEN Append(result_gts, target_gt)
             ELSE [result_gts EXCEPT ![e] = target_gt]

\* the Grundtext list of result_ulg after one number is honoured
GrundtexteAfter(result_gts, target_gt, gt_nr, fp_letter) ==
    LET e == FirstIndex(result_gts, {gt \in Range(result_gts) : HasNr(gt, gt_nr)})
    IN  IF fp_letter # ""
        THEN IF e # 0
             THEN [result_gts EXCEPT ![e] = AddFolgeposition(@, target_gt, fp_letter)]
             ELSE Append(result_gts, NewGtWithFolgeposition(target_gt, fp_letter))
        ELSE IF e = 0 THEN Append(result_gts, target_gt) ELSE result_gts

\* one iteration of "for nr in full_nrs_to_keep"; st.res is
\* result["ulg-liste"]["ulg"], st.added the keys of added_ulgs in the order of
\* st.res, st.err the exception raised
KeepStep(json_input, st, nr) ==
    LET m == ReMatch(nr) IN
    IF st.err # "" \/ ~m.ok THEN st
    ELSE
    LET ulg_nr == m.groups[2]
        gt_nr == m.groups[3]
        fp_letter == m.groups[4]
        t == FirstIndex(UlgsOf(json_input), {ulg \in Range(UlgsOf(json_input)) : HasNr(ulg, ulg_nr)})
    IN
    IF t = 0 THEN st
    ELSE
    LET target_ulg == UlgsOf(json_input)[t]
        known == \E i \in DOMAIN st.added : st.added[i] = ulg_nr
    IN
    IF ~known /\ ~Has(target_ulg, "positionen")
    THEN [st EXCEPT !.err = "KeyError"]
    ELSE
    LET st1 == IF known THEN st
               ELSE [res |-> Append(st.res, SetGrundtexts(target_ulg, <<>>)),
                     added |-> Append(st.added, ulg_nr),
                     err |-> ""]
        r == CHOOSE i \in DOMAIN st1.added : st1.added[i] = ulg_nr
        g == FirstIndex(GrundtexteOf(target_ulg), {gt \in Range(GrundtexteOf(target_ulg)) : HasNr(gt, gt_nr)})
    IN
    IF g = 0 THEN st1
    ELSE [st1 EXCEPT !.res[r] =
            SetGrundtexts(@, GrundtexteAfter(GrundtexteOf(@), GrundtexteOf(target_ulg)[g],
                                             gt_nr, fp_letter))]

RECURSIVE KeepLoop(_, _, _)
KeepLoop(json_input, st, nrs) ==
    IF nrs = <<>> THEN st
    ELSE KeepLoop(json_input, KeepStep(json_input, st, Head(nrs)), Tail(nrs))

\* the value returned and the exception raised ("" for none)
filter_json_by_full_nr(json_input, full_nrs_to_keep) ==
    LET st == KeepLoop(json_input, [res |-> <<>>, added |-> <<>>, err |-> ""],
                       full_nrs_to_keep)
    IN  IF st.err # "" THEN [val |-> NoneV, err |-> st.err]
        ELSE IF Has(json_input, "ulg-liste") /\ Has(Get(json_input, "ulg-liste"), "ulg")
        THEN [val |-> SetUlgs(json_input, st.res), err |-> ""]
        ELSE [val |-> json_input, err |-> ""]

filter_lg_by_position_numbers(lg_json_data, position_numbers) ==
    IF ~Truthy(lg_json_data) THEN [val |-> EmptyDict, err |-> ""]
    ELSE filter_json_by_full_nr(lg_json_data, position_numbers)

----------------------------------------------------------------------------
(* The documents callers hold: LG documents in the shape the upstream      *)
(* converter writes, the ULG and Grundtext documents inside them, and a    *)
(* few documents with keys missing or out of the canonical order.          *)

UlgNrChars == {<<"1", "1">>, <<"1", "2">>}

GtNrChars == {<<"0", "1">>, <<"0", "3">>}

UlgNrs == {Join(n) : n \in UlgNrChars}

GtNrs == {Join(n) : n \in GtNrChars}

Letters == {"A", "B"}

IdxStr == <<"1", "2", "3", "4", "5", "6">>

\* a Folgeposition and an undivided position; the label tells apart positions
\* that carry the same letter
MkFp(letter, label) ==
    Dict(<<KV("pos-eigenschaften", Dict(<<KV("stichwort", Atom(label))>>)),
           KV("@_ftnr", Atom(letter))>>)

MkUnd(label) ==
    Dict(<<KV("pos-eigenschaften", Dict(<<KV("stichwort", Atom(label))>>)),
           KV("@_mfv", Atom("1"))>>)

\* a Grundtext description d: its number, its Folgeposition letters, or und
\* for a Grundtext that holds one undivided position and no base text
MkGt(d, label) ==
    IF d.und
    THEN Dict(<<KV("ungeteilteposition", List(<<MkUnd(label)>>)),
                KV("@_nr", Atom(d.nr))>>)
    ELSE Dict(<<KV("grundtext", Dict(<<KV("langtext", Atom(label))>>)),
                KV("folgeposition",
                   List([i \in DOMAIN d.fps |-> MkFp(d.fps[i], label \o "f" \o IdxStr[i])])),
                KV("@_nr", Atom(d.nr))>>)

MkUlg(d, label) ==
    Dict(<<KV("ulg-eigenschaften", Dict(<<KV("ueberschrift", Atom(label))>>)),
           KV("positionen",
              Dict(<<KV("grundtextnr",
                        List([i \in DOMAIN d.gts |->
                                MkGt(d.gts[i], label \o "g" \o IdxStr[i])]))>>)),
           KV("@_nr", Atom(d.nr))>>)

MkLg(nr, ulgs) ==
    Dict(<<KV("lg-eigenschaften", Dict(<<KV("ueberschrift", Atom("lg" \o nr))>>)),
           KV("ulg-liste",
              Dict(<<KV("ulg", List([i \in DOMAIN ulgs |->
                                       MkUlg(ulgs[i], "u" \o IdxStr[i])]))>>)),
           KV("@_nr", Atom(nr))>>)

GtLeaves(d) == IF d.und THEN 1 ELSE Len(d.fps)

\* the Grundtext descriptions with at most fp positions
GtDescs(fp) ==
    {[nr |-> nr, und |-> FALSE, fps |-> fps] :
        nr \in GtNrs, fps \in UNION {[1..k -> Letters] : k \in 0..fp}}
    \cup {[nr |-> nr, und |-> TRUE, fps |-> <<>>] : nr \in IF fp >= 1 THEN GtNrs ELSE {}}

\* the lists of at most gt Grundtext descriptions with at most fp positions
RECURSIVE GtDescLists(_, _)
GtDescLists(gt, fp) ==
    IF gt = 0 THEN {<<>>}
    ELSE {<<>>} \cup UNION {{<<d>> \o rest : rest \in GtDescLists(gt - 1, fp - GtLeaves(d))} :
                              d \in GtDescs(fp)}

RECURSIVE SumLeaves(_)
SumLeaves(gts) == IF gts = <<>> THEN 0 ELSE GtLeaves(Head(gts)) + SumLeaves(Tail(gts))

\* the lists of at most n ULG descriptions with at most gt Grundtexts and fp
\* positions in all
RECURSIVE UlgDescLists(_, _, _)
UlgDescLists(n, gt, fp) ==
    IF n = 0 THEN {<<>>}
    ELSE {<<>>} \cup
         UNION {{<<[nr |-> nr, gts |-> gts]>> \o rest :
                    rest \in UlgDescLists(n - 1, gt - Len(gts), fp - SumLeaves(gts))} :
                 nr \in UlgNrs, gts \in GtDescLists(gt, fp)}

RECURSIVE GtSeq(_)
GtSeq(ulgs) == IF ulgs = <<>> THEN <<>> ELSE Head(ulgs).gts \o GtSeq(Tail(ulgs))

RECURSIVE FpSeq(_)
FpSeq(gts) == IF gts = <<>> THEN <<>> ELSE Head(gts).fps \o FpSeq(Tail(gts))

\* The filters only compare numbers and letters for equality, so a renaming
\* of the numbers of a document and of a call changes nothing: the generated
\* documents are those whose first ULG is "11", first Grundtext is "01" and
\* first Folgeposition is "A", in document order.
FirstNamesFixed(ulgs) ==
    /\ ulgs # <<>> => ulgs[1].nr = "11"
    /\ GtSeq(ulgs) # <<>> => GtSeq(ulgs)[1].nr = "01"
    /\ FpSeq(GtSeq(ulgs)) # <<>> => FpSeq(GtSeq(ulgs))[1] = "A"

GeneratedLgs ==
    {MkLg("00", ulgs) :
        ulgs \in {u \in UlgDescLists(MaxUlgs, MaxGts, MaxFps) : FirstNamesFixed(u)}}

\* LG "00" with ULG "11" holding Grundtext "01" (A, B, C) and Grundtext "03"
\* (A, B), alone and beside a Grundtext "02" and a ULG "12" with a Grundtext "01"
ExampleUlg11(extra) ==
    [nr |-> "11",
     gts |-> <<[nr |-> "01", und |-> FALSE, fps |-> <<"A", "B", "C">>]>>
             \o extra
             \o <<[nr |-> "03", und |-> FALSE, fps |-> <<"A", "B">>]>>]

ExampleLgs ==
    {MkLg("00", <<ExampleUlg11(<<>>)>>),
     MkLg("00", <<[nr |-> "12", gts |-> <<[nr |-> "01", und |-> FALSE, fps |-> <<"A">>]>>],
                  ExampleUlg11(<<[nr |-> "02", und |-> FALSE, fps |-> <<"A">>]>>)>>)}

Remove(d, key) == Dict(SelectSeq(d.c, LAMBDA p : p.k # key))

\* the same keys with "@_nr" first
NrFirst(d) == Dict(<<KV("@_nr", Get(d, "@_nr"))>> \o Remove(d, "@_nr").c)

SampleUlg == MkUlg([nr |-> "11", gts |-> <<[nr |-> "01", und |-> FALSE, fps |-> <<"A">>]>>], "u1")

SampleGt == MkGt([nr |-> "01", und |-> FALSE, fps |-> <<"A", "B">>], "u1g1")

\* documents with structural keys missing, and documents out of canonical order
IrregularDocs ==
    {Put(MkLg("00", <<>>), "ulg-liste", EmptyDict),
     MkLg("00", <<>>),
     Put(SampleUlg, "positionen", EmptyDict),
     Remove(SampleUlg, "positionen"),
     Put(MkLg("00", <<>>), "ulg-liste", Dict(<<KV("ulg", List(<<Remove(SampleUlg, "positionen")>>))>>)),
     Put(MkLg("00", <<>>), "ulg-liste", Dict(<<KV("ulg", List(<<Put(SampleUlg, "positionen", EmptyDict)>>))>>)),
     Remove(SampleGt, "grundtext"),
     Remove(SampleGt, "folgeposition"),
     NrFirst(SampleGt),
     NrFirst(SampleUlg),
     NrFirst(MkLg("00", <<[nr |-> "11", gts |-> <<>>]>>)),
     EmptyDict}

Lgs == GeneratedLgs \cup ExampleLgs

Ulgs == UNION {Range(UlgsOf(lg)) : lg \in Lgs}

Grundtexte == UNION {Range(GrundtexteOf(ulg)) : ulg \in Ulgs}

Documents == Lgs \cup Ulgs \cup Grundtexte \cup IrregularDocs

----------------------------------------------------------------------------
(* The calls.                                                              *)

NoCall == [op |-> "none"]

Texts == UNION {[1..n -> Alphabet] : n \in 0..MaxTextLen}

Validate ==
    /\ call' = [op |-> "validate"]
    /\ out' = Bool(validate_position_number_format(text))
    /\ err' = ""
    /\ UNCHANGED <<root, text, rows>>

GetPositionInfo ==
    /\ call' = [op |-> "info"]
    /\ out' = get_position_info(text)
    /\ err' = ""
    /\ UNCHANGED <<root, text, rows>>

InitCode ==
    /\ text \in Texts
    /\ root = EmptyDict
    /\ call = NoCall
    /\ out = NoneV
    /\ err = ""
    /\ rows = <<>>

NextCode == Validate \/ GetPositionInfo

SpecCode == InitCode /\ [][NextCode]_vars

----------------------------------------------------------------------------
(* Canonicalisation of arbitrary documents.                                *)

\* every key the classifier or the key orders name, and one they do not
AllKeys ==
    {"@_nr", "lg-eigenschaften", "ulg-liste", "ulg-eigenschaften", "positionen",
     "grundtext", "ungeteilteposition", "folgeposition", "pos-eigenschaften",
     "@_ftnr", "@_mfv", "x"}

\* the sequences without repetition of at most n elements of S
DistinctSeqs(S, n) ==
    UNION {{q \in [1..m -> S] : \A i, j \in 1..m : i # j => q[i] # q[j]} : m \in 0..n}

\* a dict with the given keys, all values atoms
FlatDict(keys) == Dict([i \in DOMAIN keys |-> KV(keys[i], Atom("v"))])

Max(S) == CHOOSE x \in S : \A y \in S : y <= x

RECURSIVE Depth(_)
Depth(n) ==
    IF (IsDict(n) \/ IsList(n)) /\ n.c # <<>>
    THEN 1 + Max({Depth(IF IsDict(n) THEN n.c[i].v ELSE n.c[i]) : i \in DOMAIN n.c})
    ELSE 0

\* the caller nests the document in a list of two elements
WrapInList ==
    /\ call = NoCall
    /\ Depth(root) <= MaxDepth
    /\ root' = List(<<root, FlatDict(<<"x", "@_nr", "grundtext">>)>>)
    /\ UNCHANGED <<call, out, err, text, rows>>

\* the caller nests the document under a key of an enclosing dict
WrapInDict ==
    /\ call = NoCall
    /\ Depth(root) <= MaxDepth
    /\ \E key \in {"ulg-liste", "folgeposition", "x"} :
         root' = Dict(<<KV("@_nr", Atom("v")), KV(key, root)>>)
    /\ UNCHANGED <<call, out, err, text, rows>>

Canonicalize ==
    /\ call = NoCall
    /\ call' = [op |-> "canon"]
    /\ out' = _preserve_json_order(root)
    /\ err' = ""
    /\ UNCHANGED <<root, text, rows>>

InitCanon ==
    /\ root \in {FlatDict(keys) : keys \in DistinctSeqs(AllKeys, MaxKeys)}
    /\ call = NoCall
    /\ out = NoneV
    /\ err = ""
    /\ text = <<>>
    /\ rows = <<>>

NextCanon == WrapInList \/ WrapInDict \/ Canonicalize

SpecCanon == InitCanon /\ [][NextCanon]_vars

----------------------------------------------------------------------------
(* The endpoints of the router: the "filtered_data" of the response, or    *)
(* the status of the HTTPException raised.                                 *)

filter_entity_endpoint(json_input, target_entity_type, target_value, target_ulg_nr, target_grundtext_nr) ==
    IF ~IsDict(json_input) \/ target_entity_type \notin {"ULG", "Grundtext", "Folgeposition"}
    THEN [val |-> NoneV, err |-> "400"]
    ELSE LET filtered_data == filter_json_entity(json_input, target_entity_type, target_value,
                                                 target_ulg_nr, target_grundtext_nr)
         IN  IF filtered_data.err # "" THEN [val |-> NoneV, err |-> "500"] ELSE filtered_data

filter_full_nr_endpoint(json_input, full_nrs_to_keep) ==
    IF ~IsDict(json_input) \/ full_nrs_to_keep = <<>>
    THEN [val |-> NoneV, err |-> "400"]
    ELSE LET filtered_data == filter_json_by_full_nr(json_input, full_nrs_to_keep)
         IN  IF filtered_data.err # "" THEN [val |-> NoneV, err |-> "500"] ELSE filtered_data

----------------------------------------------------------------------------
(* Calls of the filters on a document.                                     *)

TargetTypes == {"ULG", "Grundtext", "Folgeposition", "LG"}

\* the values asked for: the numbers and letters of the documents and one
\* that no document holds
TargetValues(type) ==
    CASE type = "ULG" -> UlgNrs \cup {"99"}
      [] type = "Grundtext" -> GtNrs \cup {"99"}
      [] type = "Folgeposition" -> Letters \cup {"Z"}
      [] OTHER -> {"00"}

ScopeUlgs == {NoneV} \cup {Atom(n) : n \in UlgNrs}

ScopeGrundtexte == {NoneV} \cup {Atom(n) : n \in GtNrs}

\* full position numbers of LG "00", a number of another LG, a number that is
\* too short and a number with a lower-case letter
CodeTexts ==
    {<<"0", "0">> \o u \o g \o l :
        u \in UlgNrChars, g \in GtNrChars, l \in {<<>>, <<"A">>, <<"B">>}}
    \cup {<<"0", "1", "1", "1", "0", "1">>, <<"0", "0", "1", "1">>,
          <<"0", "0", "1", "1", "0", "1", "a">>}

CodeLists == UNION {[1..n -> CodeTexts] : n \in 0..MaxCodes}

Zoom ==
    /\ call = NoCall
    /\ \E type \in TargetTypes, ulg \in ScopeUlgs, gt \in ScopeGrundtexte :
      \E value \in TargetValues(type) :
        LET r == filter_json_entity(root, type, value, ulg, gt) IN
        /\ call' = [op |-> "zoom", type |-> type, value |-> value, ulg |-> ulg, gt |-> gt]
        /\ out' = r.val
        /\ err' = r.err
        /\ UNCHANGED <<root, text, rows>>

Keep ==
    /\ call = NoCall
    /\ \E codes \in CodeLists :
        LET r == filter_json_by_full_nr(root, codes) IN
        /\ call' = [op |-> "keep", codes |-> codes]
        /\ out' = r.val
        /\ err' = r.err
        /\ UNCHANGED <<root, text, rows>>

Init ==
    /\ root \in Documents
    /\ call = NoCall
    /\ out = NoneV
    /\ err = ""
    /\ text = <<>>
    /\ rows = <<>>

Next == Zoom \/ Keep

Spec == Init /\ [][Next]_vars

----------------------------------------------------------------------------
(* Storage: process_and_store_data writes one row per node of a payload,   *)
(* fetch_and_filter_lg_by_position_numbers_v2 reads the rows back, joins   *)
(* them into LG documents and keeps the numbers asked for.                 *)

Tok(kind, s) == [k |-> kind, s |-> s]

\* the JSON text of a value, as the sequence of its tokens: the request body
\* of the insert carries entity_json as JSON text
RECURSIVE json_dumps(_)
json_dumps(n) ==
    CASE IsDict(n) ->
           <<Tok("punct", "{")>>
           \o Flatten([i \in DOMAIN n.c |-> <<Tok("key", n.c[i].k)>> \o json_dumps(n.c[i].v)])
           \o <<Tok("punct", "}")>>
      [] IsList(n) ->
           <<Tok("punct", "[")>>
           \o Flatten([i \in DOMAIN n.c |-> json_dumps(n.c[i])])
           \o <<Tok("punct", "]")>>
      [] n.t = "none" -> <<Tok("lit", "null")>>
      [] n.t = "bool" -> <<Tok("lit", IF n.a = "True" THEN "true" ELSE "false")>>
      [] OTHER -> <<Tok("str", n.a)>>

\* json.loads: the value and the place after it; a key said twice keeps its
\* first place and its last value
RECURSIVE ParseValue(_, _), ParseMembers(_, _, _), ParseElements(_, _, _)
ParseValue(toks, p) ==
    CASE toks[p] = Tok("punct", "{") -> ParseMembers(toks, p + 1, EmptyDict)
      [] toks[p] = Tok("punct", "[") -> ParseElements(toks, p + 1, <<>>)
      [] toks[p] = Tok("lit", "null") -> [val |-> NoneV, next |-> p + 1]
      [] toks[p].k = "lit" -> [val |-> Bool(toks[p].s = "true"), next |-> p + 1]
      [] OTHER -> [val |-> Atom(toks[p].s), next |-> p + 1]

\* the members after the member key: v, and the elements after the element v
AfterMember(toks, acc, key, v) == ParseMembers(toks, v.next, Put(acc, key, v.val))

AfterElement(toks, acc, v) == ParseElements(toks, v.next, Append(acc, v.val))

ParseMembers(toks, p, acc) ==
    IF toks[p] = Tok("punct", "}") THEN [val |-> acc, next |-> p + 1]
    ELSE AfterMember(toks, acc, toks[p].s, ParseValue(toks, p + 1))

ParseElements(toks, p, acc) ==
    IF toks[p] = Tok("punct", "]") THEN [val |-> List(acc), next |-> p + 1]
    ELSE AfterElement(toks, acc, ParseValue(toks, p))

json_loads(toks) == ParseValue(toks, 1).val

\* "if isinstance(x, dict): x = [x]"
AsList(x) == IF IsDict(x) THEN <<x>> ELSE x.c

\* f"{a}{b}..." if a and b ... else ""
RECURSIVE Concat(_)
Concat(parts) == IF parts = <<>> THEN "" ELSE Str(Head(parts)) \o Concat(Tail(parts))

FullNr(parts) ==
    IF \A i \in DOMAIN parts : Truthy(parts[i]) THEN Concat(parts) ELSE ""

\* one element of documents_to_store, without the texts that only feed the
\* embedding
Row(entity_type, lg_nr, ulg_nr, grundtext_nr, position_nr, node, full_nr) ==
    [entity_type |-> entity_type, lg_nr |-> lg_nr, ulg_nr |-> ulg_nr,
     grundtext_nr |-> grundtext_nr, position_nr |-> position_nr,
     entity_json |-> json_dumps(_preserve_json_order(node)), full_nr |-> full_nr]

UngeteiltePositionRows(lg_nr, ulg_nr, gt) ==
    LET ungeteilte_positionen == AsList(GetOr(gt, "ungeteilteposition", List(<<>>)))
    IN  [i \in DOMAIN ungeteilte_positionen |->
            Row("UngeteiltePosition", lg_nr, ulg_nr, Get(gt, "@_nr"),
                Get(ungeteilte_positionen[i], "@_mfv"), gt,
                FullNr(<<lg_nr, ulg_nr, Get(gt, "@_nr")>>))]

FolgepositionRows(lg_nr, ulg_nr, gt) ==
    LET folgepositionen == AsList(GetOr(gt, "folgeposition", List(<<>>)))
    IN  [i \in DOMAIN folgepositionen |->
            Row("Folgeposition", lg_nr, ulg_nr, Get(gt, "@_nr"),
                Get(folgepositionen[i], "@_ftnr"), folgepositionen[i],
                FullNr(<<lg_nr, ulg_nr, Get(gt, "@_nr"),
                         Get(folgepositionen[i], "@_ftnr")>>))]

\* the rows of one Grundtext: a Grundtext row and Folgeposition rows only for
\* a Grundtext that holds the key "grundtext"
GrundtextRows(lg_nr, ulg_nr, gt) ==
    UngeteiltePositionRows(lg_nr, ulg_nr, gt)
    \o (IF Has(gt, "grundtext")
        THEN <<Row("Grundtext", lg_nr, ulg_nr, Get(gt, "@_nr"), NoneV, gt,
                   FullNr(<<lg_nr, ulg_nr, Get(gt, "@_nr")>>))>>
             \o FolgepositionRows(lg_nr, ulg_nr, gt)
        ELSE <<>>)

UlgRows(lg_nr, ulg) ==
    LET grundtexte == AsList(GetOr(GetOr(ulg, "positionen", EmptyDict),
                                   "grundtextnr", List(<<>>)))
    IN  <<Row("ULG", lg_nr, Get(ulg, "@_nr"), NoneV, NoneV, ulg,
              FullNr(<<lg_nr, Get(ulg, "@_nr")>>))>>
        \o Flatten([i \in DOMAIN grundtexte |->
                      GrundtextRows(lg_nr, Get(ulg, "@_nr"), grundtexte[i])])

LgRows(lg) ==
    LET ulgs == AsList(GetOr(GetOr(lg, "ulg-liste", EmptyDict), "ulg", List(<<>>)))
    IN  <<Row("LG", Get(lg, "@_nr"), NoneV, NoneV, NoneV, lg,
              IF Truthy(Get(lg, "@_nr")) THEN Str(Get(lg, "@_nr")) ELSE "")>>
        \o Flatten([i \in DOMAIN ulgs |-> UlgRows(Get(lg, "@_nr"), ulgs[i])])

documents_to_store(full_json_payload) ==
    Flatten([i \in DOMAIN full_json_payload |-> LgRows(full_json_payload[i])])

\* the documents whose embedding is not empty: no_embedding is the place of
\* the document whose embedding request failed, 0 when none failed
valid_documents(full_json_payload, no_embedding) ==
    IF no_embedding = 0 THEN documents_to_store(full_json_payload)
    ELSE RemoveAt(documents_to_store(full_json_payload), no_embedding)

CHUNK_SIZE == 100

\* the rows in the table after process_and_store_data; failed_chunk is the
\* chunk whose insert raised, 0 when none did
process_and_store_data(table, full_json_payload, no_embedding, failed_chunk) ==
    LET valid == valid_documents(full_json_payload, no_embedding)
    IN  IF failed_chunk = 0
        THEN [rows |-> table \o valid, err |-> ""]
        ELSE [rows |-> table \o SubSeq(valid, 1, (failed_chunk - 1) * CHUNK_SIZE),
              err |-> "Exception"]

\* the order of the text columns for the numbers and letters of the documents
Collation == <<"00", "01", "02", "03", "11", "12", "99", "A", "B", "C", "Z">>

Rank(v) ==
    IF v.t = "atom" /\ \E i \in DOMAIN Collation : Collation[i] = v.a
    THEN CHOOSE i \in DOMAIN Collation : Collation[i] = v.a
    ELSE Len(Collation) + 1

\* the places of a sequence of ranks in ascending order of rank, equal ranks
\* in the order they stand in
SortedPlaces(ranks) ==
    [k \in DOMAIN ranks |->
        CHOOSE i \in DOMAIN ranks :
            Cardinality({j \in DOMAIN ranks :
                           ranks[j] < ranks[i] \/ (ranks[j] = ranks[i] /\ j < i)}) = k - 1]

\* .order(column): the records in ascending order of the column
OrderBy(records, column) ==
    LET places == SortedPlaces([i \in DOMAIN records |-> Rank(records[i][column])])
    IN  [i \in DOMAIN records |-> records[places[i]]]

\* the list is left in the order of lg_data
Unsorted(lgs) == lgs

\* filtered_lgs.sort(key=lambda lg: lg.get('@_nr', ''))
SortedByNr(lgs) ==
    LET places == SortedPlaces([i \in DOMAIN lgs |-> Rank(GetOr(lgs[i], "@_nr", Atom("")))])
    IN  [i \in DOMAIN lgs |-> lgs[places[i]]]

\* .eq('entity_type', ...).in_('lg_nr', ...): the rows in an order the storage
\* chooses where the query gives none, here the order of insertion or its
\* reverse
Select(table, entity_type, lg_nrs, ties) ==
    LET found == SelectSeq(table, LAMBDA r : r.entity_type = entity_type
                                             /\ Str(r.lg_nr) \in lg_nrs)
    IN  IF ties = "reverse" THEN Reverse(found) ELSE found

LoadJson(entity_json) == IF entity_json = <<>> THEN EmptyDict ELSE json_loads(entity_json)

fps_by_gt(fp_records, key) ==
    LET group == SelectSeq(fp_records,
                           LAMBDA fp : <<fp.lg_nr, fp.ulg_nr, fp.grundtext_nr>> = key)
    IN  [i \in DOMAIN group |->
            Put(LoadJson(group[i].entity_json), "@_ftnr", group[i].position_nr)]

\* the Folgepositionen embedded in the document of the Grundtext row are
\* kept where it has any
gts_by_ulg_embedded(gt_records, fp_records, key) ==
    LET group == SelectSeq(gt_records, LAMBDA gt : <<gt.lg_nr, gt.ulg_nr>> = key)
    IN  [i \in DOMAIN group |->
            IF FolgepositionenOf(LoadJson(group[i].entity_json)) # <<>>
            THEN Put(LoadJson(group[i].entity_json), "@_nr", group[i].grundtext_nr)
            ELSE Put(Put(LoadJson(group[i].entity_json), "@_nr", group[i].grundtext_nr),
                     "folgeposition",
                     List(fps_by_gt(fp_records,
                                    <<group[i].lg_nr, group[i].ulg_nr, group[i].grundtext_nr>>)))]

gts_by_ulg(gt_records, fp_records, key) ==
    LET group == SelectSeq(gt_records, LAMBDA gt : <<gt.lg_nr, gt.ulg_nr>> = key)
    IN  [i \in DOMAIN group |->
            Put(Put(LoadJson(group[i].entity_json), "@_nr", group[i].grundtext_nr),
                "folgeposition",
                List(fps_by_gt(fp_records,
                               <<group[i].lg_nr, group[i].ulg_nr, group[i].grundtext_nr>>)))]

ulgs_by_lg(ulg_records, gt_records, fp_records, key) ==
    LET group == SelectSeq(ulg_records, LAMBDA ulg : ulg.lg_nr = key)
        WithNr(r) == Put(LoadJson(r.entity_json), "@_nr", r.ulg_nr)
        WithPositionen(j) == IF Has(j, "positionen") THEN j ELSE Put(j, "positionen", EmptyDict)
    IN  [i \in DOMAIN group |->
            SetGrundtexts(WithPositionen(WithNr(group[i])),
                          gts_by_ulg(gt_records, fp_records,
                                     <<group[i].lg_nr, group[i].ulg_nr>>))]

\* the dict lg_data: one assembled LG per lg_nr, in the order of lg_records
RECURSIVE lg_data(_, _, _, _)
lg_data(lg_records, ulg_records, gt_records, fp_records) ==
    IF lg_records = <<>> THEN EmptyDict
    ELSE LET lg == lg_records[Len(lg_records)]
             j0 == Put(LoadJson(lg.entity_json), "@_nr", lg.lg_nr)
             j1 == IF Has(j0, "ulg-liste") THEN j0 ELSE Put(j0, "ulg-liste", EmptyDict)
         IN  Put(lg_data(SubSeq(lg_records, 1, Len(lg_records) - 1),
                         ulg_records, gt_records, fp_records),
                 Str(lg.lg_nr),
                 SetUlgs(j1, ulgs_by_lg(ulg_records, gt_records, fp_records, lg.lg_nr)))

\* pos.startswith(lg_nr)
StartsWith(pos, lg_nr) ==
    \E n \in 0..Len(pos) : Join(SubSeq(pos, 1, n)) = lg_nr

\* one turn of "for lg_nr, lg_json in lg_data.items()" on the list so far
FilterOneLg(rest, lg, position_numbers) ==
    LET lg_specific_positions ==
            SelectSeq(position_numbers, LAMBDA pos : StartsWith(pos, lg.k))
        filtered_lg == filter_json_by_full_nr(lg.v, lg_specific_positions)
    IN  IF rest.err # "" \/ lg_specific_positions = <<>> THEN rest
        ELSE IF filtered_lg.err # "" THEN [val |-> <<>>, err |-> filtered_lg.err]
        ELSE IF Has(filtered_lg.val, "ulg-liste")
                /\ Has(Get(filtered_lg.val, "ulg-liste"), "ulg")
                /\ Truthy(Get(Get(filtered_lg.val, "ulg-liste"), "ulg"))
        THEN [val |-> Append(rest.val, filtered_lg.val), err |-> ""]
        ELSE rest

\* the filtered LGs of the branch for several LGs, before the sort
RECURSIVE filtered_lgs(_, _)
filtered_lgs(lgs, position_numbers) ==
    IF lgs = <<>> THEN [val |-> <<>>, err |-> ""]
    ELSE FilterOneLg(filtered_lgs(SubSeq(lgs, 1, Len(lgs) - 1), position_numbers),
                     lgs[Len(lgs)], position_numbers)

\* step 4: the assembled LGs are filtered, one alone or several in a list
filter_reconstructed(lgs, position_numbers) ==
    IF Len(lgs) = 1
    THEN filter_json_by_full_nr(lgs[1].v, position_numbers)
    ELSE IF Len(lgs) > 1
    THEN LET several == filtered_lgs(lgs, position_numbers)
         IN  IF several.err # "" THEN [val |-> NoneV, err |-> several.err]
             ELSE [val |-> List(SortedByNr(several.val)),
                   err |-> ""]
    ELSE [val |-> EmptyDict, err |-> ""]

\* steps 3 and 4 on the records that the four reads returned
reconstruct(position_numbers, lg_records, ulg_records, gt_records, fp_records) ==
    CHOOSE r \in {filter_reconstructed(lgs, position_numbers) :
                    lgs \in {lg_data(lg_records, ulg_records, gt_records, fp_records).c}} :
        TRUE

\* a failure of the third read is swallowed and the LGs are assembled from
\* the LG and ULG records read before it
fetch_returning_partial(position_numbers, table, storage, ties) ==
    LET valid == SelectSeq(position_numbers, validate_position_number_format)
        lg_nrs == {Str(Get(get_position_info(valid[i]), "lg_nr")) : i \in DOMAIN valid}
    IN
    IF position_numbers = <<>> \/ storage = "no_credentials" \/ lg_nrs = {}
    THEN [val |-> EmptyDict, err |-> ""]
    ELSE CHOOSE r \in
           {reconstruct(position_numbers, lg_records, ulg_records, gt_records, fp_records) :
              lg_records \in {Select(table, "LG", lg_nrs, ties)},
              ulg_records \in {OrderBy(Select(table, "ULG", lg_nrs, ties), "ulg_nr")},
              gt_records \in {IF storage = "fetch_error" THEN <<>>
                              ELSE OrderBy(Select(table, "Grundtext", lg_nrs, ties), "grundtext_nr")},
              fp_records \in {IF storage = "fetch_error" THEN <<>>
                              ELSE OrderBy(Select(table, "Folgeposition", lg_nrs, ties), "position_nr")}} : TRUE

\* storage is "ok", "no_credentials" or "fetch_error" (one of the four reads
\* of the try block raises); the value returned and the exception raised
fetch_and_filter_lg_by_position_numbers_v2(position_numbers, table, storage, ties) ==
    LET valid == SelectSeq(position_numbers, validate_position_number_format)
        lg_nrs == {Str(Get(get_position_info(valid[i]), "lg_nr")) : i \in DOMAIN valid}
    IN
    IF position_numbers = <<>> \/ storage = "no_credentials" \/ lg_nrs = {}
       \/ storage = "fetch_error"
    THEN [val |-> EmptyDict, err |-> ""]
    ELSE CHOOSE r \in
           {reconstruct(position_numbers, lg_records, ulg_records, gt_records, fp_records) :
              lg_records \in {Select(table, "LG", lg_nrs, ties)},
              ulg_records \in {OrderBy(Select(table, "ULG", lg_nrs, ties), "ulg_nr")},
              gt_records \in {OrderBy(Select(table, "Grundtext", lg_nrs, ties), "grundtext_nr")},
              fp_records \in {OrderBy(Select(table, "Folgeposition", lg_nrs, ties), "position_nr")}} : TRUE

\* POST /utils/fetch-lg-positions: the "filtered_data" of the response, or the
\* status of the HTTPException raised
fetch_lg_positions_endpoint(position_numbers, table, storage, ties) ==
    IF position_numbers = <<>>
    THEN [val |-> NoneV, err |-> "400"]
    ELSE LET filtered_data == fetch_and_filter_lg_by_position_numbers_v2(position_numbers, table,
                                                                         storage, ties)
         IN  IF filtered_data.err # "" THEN [val |-> NoneV, err |-> "500"] ELSE filtered_data

\* the lists of Grundtext descriptions without a repeated number or letter
UniqueGtDescLists ==
    {gts \in GtDescLists(MaxGts, MaxFps) :
        /\ \A i, j \in DOMAIN gts : i # j => gts[i].nr # gts[j].nr
        /\ \A i \in DOMAIN gts :
             \A j, k \in DOMAIN gts[i].fps : j # k => gts[i].fps[j] # gts[i].fps[k]}

\* the LG documents that are ingested: LG "00" with ULG "11" holding every
\* list of Grundtexts of the bounds that repeats no number, in every order,
\* and LG "00" with two ULGs in both orders and with the same number
ReconLgs ==
    {MkLg("00", <<[nr |-> "11", gts |-> gts]>>) : gts \in UniqueGtDescLists}
    \cup {MkLg("00", <<[nr |-> u[1], gts |-> <<[nr |-> "01", und |-> FALSE, fps |-> <<"A">>]>>],
                       [nr |-> u[2], gts |-> <<[nr |-> "01", und |-> FALSE, fps |-> <<"B">>]>>]>>) :
            u \in {<<"11", "12">>, <<"12", "11">>, <<"11", "11">>}}

\* another LG that the storage may hold beside the one under test
OtherLg == MkLg("01", <<[nr |-> "11", gts |-> <<[nr |-> "01", und |-> FALSE, fps |-> <<"A">>]>>]>>)

Payloads(lg) == {<<lg>>, <<OtherLg, lg>>}

\* a whole Grundtext, a Folgeposition, a Grundtext that may be second, a
\* number of a ULG that may be missing, a number of the other LG and a number
\* that is too short
ReconCodeTexts ==
    {<<"0", "0", "1", "1", "0", "1">>, <<"0", "0", "1", "1", "0", "1", "B">>,
     <<"0", "0", "1", "1", "0", "3">>, <<"0", "0", "1", "2", "0", "1">>,
     <<"0", "1", "1", "1", "0", "1">>, <<"0", "0", "1", "1">>}

ReconCodeLists == UNION {[1..n -> ReconCodeTexts] : n \in 0..MaxCodes}

Chunks(n) == (n + CHUNK_SIZE - 1) \div CHUNK_SIZE

\* process_and_store_data on a payload; the embedding request of at most one
\* document fails, and the insert of a chunk may raise
Ingest ==
    /\ call = NoCall
    /\ \E payload \in Payloads(root) :
       \E no_embedding \in 0..Len(documents_to_store(payload)) :
       \E failed_chunk \in 0..Chunks(Len(valid_documents(payload, no_embedding))) :
       \E r \in {process_and_store_data(rows, payload, no_embedding, failed_chunk)} :
         /\ rows' = r.rows
         /\ err' = r.err
         /\ call' = [op |-> "ingest", no_embedding |-> no_embedding,
                     failed_chunk |-> failed_chunk]
         /\ UNCHANGED <<root, out, text>>

\* a read of the rows that an ingest has stored
ReconstructAndFilter ==
    /\ call.op = "ingest"
    /\ err = ""
    /\ \E codes \in ReconCodeLists :
       \E how \in {<<"ok", "insertion">>, <<"ok", "reverse">>,
                   <<"no_credentials", "insertion">>, <<"fetch_error", "insertion">>} :
       \E r \in {fetch_and_filter_lg_by_position_numbers_v2(codes, rows, how[1], how[2])} :
         /\ out' = r.val
         /\ err' = r.err
         /\ call' = [op |-> "recon", codes |-> codes, storage |-> how[1], ties |-> how[2],
                     no_embedding |-> call.no_embedding, failed_chunk |-> call.failed_chunk]
         /\ UNCHANGED <<root, text, rows>>

InitRecon ==
    /\ root \in ReconLgs
    /\ call = NoCall
    /\ out = NoneV
    /\ err = ""
    /\ text = <<>>
    /\ rows = <<>>

NextRecon == Ingest \/ ReconstructAndFilter

SpecRecon == InitRecon /\ [][NextRecon]_vars

----------------------------------------------------------------------------
(* The position-number grammar: six digits, then at most one upper-case    *)
(* letter, and nothing else.                                               *)

WellFormed(s) ==
    /\ Len(s) \in {6, 7}
    /\ \A i \in 1..6 : s[i] \in Digits
    /\ Len(s) = 7 => s[7] \in Uppers

\* C4: validate_position_number_format and get_position_info accept a text if
\* and only if it is exactly six digits optionally followed by one upper-case
\* letter; every other text is rejected.
C4_AcceptsExactlyGrammar ==
    /\ call.op = "validate" => (out = Bool(TRUE) <=> WellFormed(text))
    /\ call.op = "info" => (out # EmptyDict <=> WellFormed(text))

\* C5: for every accepted text, lg_nr + ulg_nr + grundtext_nr + the letter (when
\* there is one) is the text itself, and is_full_grundtext is true exactly when
\* there is no letter.
C5_FormatRoundTrip ==
    (call.op = "info" /\ out # EmptyDict) =>
        /\ Str(Get(out, "lg_nr")) \o Str(Get(out, "ulg_nr"))
             \o Str(Get(out, "grundtext_nr"))
             \o (IF Get(out, "folgeposition") = NoneV THEN ""
                 ELSE Str(Get(out, "folgeposition")))
           = Join(text)
        /\ (Get(out, "is_full_grundtext") = Bool(TRUE)
              <=> Get(out, "folgeposition") = NoneV)

----------------------------------------------------------------------------
(* Canonical key order.                                                    *)

\* C6: canonicalize (_preserve_json_order) is idempotent: canonicalizing its
\* own result changes nothing, neither keys, values nor key order, for dicts and
\* lists of recognized and unrecognized shapes at every nesting level.
C6_CanonicalizeIdempotent ==
    call.op = "canon" => _preserve_json_order(out) = out

\* a nested document whose inner dict is of a recognized shape, holds a key
\* outside that shape's order, and was reordered by the first pass
C6_Witness ==
    /\ call.op = "canon"
    /\ out # root
    /\ _preserve_json_order(out) = out
    /\ \E i \in DOMAIN root.c :
         /\ IsDict(root)
         /\ IsDict(root.c[i].v)
         /\ _get_object_type(root.c[i].v) = "GT"
         /\ Has(root.c[i].v, "x")
         /\ Has(root.c[i].v, "positionen")
         /\ Keys(root.c[i].v)[1] = "x"
         /\ Keys(_preserve_json_order(root.c[i].v)) # Keys(root.c[i].v)

----------------------------------------------------------------------------
(* Zoom and keep on documents.                                             *)

\* the level zoom's shape detection gives to a root
Level(doc) ==
    IF is_lg(doc) THEN "LG"
    ELSE IF is_ulg(doc) THEN "ULG"
    ELSE IF is_grundtext(doc) THEN "Grundtext"
    ELSE "none"

\* the nodes of each type in a document, in document order
UlgNodes(doc) == IF Level(doc) = "LG" THEN UlgsOf(doc) ELSE <<>>

GtNodes(doc) ==
    IF Level(doc) = "ULG" THEN GrundtexteOf(doc)
    ELSE Flatten([i \in DOMAIN UlgNodes(doc) |-> GrundtexteOf(UlgNodes(doc)[i])])

FpNodes(doc) ==
    IF Level(doc) = "Grundtext" THEN FolgepositionenOf(doc)
    ELSE Flatten([i \in DOMAIN GtNodes(doc) |-> FolgepositionenOf(GtNodes(doc)[i])])

NodesOfType(doc, type) ==
    CASE type = "ULG" -> UlgNodes(doc)
      [] type = "Grundtext" -> GtNodes(doc)
      [] type = "Folgeposition" -> FpNodes(doc)
      [] OTHER -> <<>>

IdOf(node, type) ==
    IF type = "Folgeposition" THEN Str(Get(node, "@_ftnr")) ELSE Str(Get(node, "@_nr"))

\* the target types strictly below the level of a root
TypesBelow(level) ==
    CASE level = "LG" -> {"ULG", "Grundtext", "Folgeposition"}
      [] level = "ULG" -> {"Grundtext", "Folgeposition"}
      [] level = "Grundtext" -> {"Folgeposition"}
      [] OTHER -> {}

\* the leaf positions of a Grundtext: its Folgepositionen by letter and its
\* undivided positions
GtLeafSet(gt) ==
    {<<"F", IdOf(fp, "Folgeposition")>> : fp \in Range(FolgepositionenOf(gt))}
    \cup {<<"U", Str(Get(p, "@_mfv"))>> :
            p \in Range(GetOr(gt, "ungeteilteposition", List(<<>>)).c)}

UlgLeafSet(ulg) ==
    UNION {{<<IdOf(gt, "Grundtext")>> \o l : l \in GtLeafSet(gt)} :
             gt \in Range(GrundtexteOf(ulg))}

LgLeafSet(lg) ==
    UNION {{<<IdOf(ulg, "ULG")>> \o l : l \in UlgLeafSet(ulg)} : ulg \in Range(UlgsOf(lg))}

\* the leaf positions of a document by their ULG / Grundtext / letter path,
\* as far as the path lies inside the document
LeafPositions(doc) ==
    IF ~IsDict(doc) THEN {}
    ELSE IF Has(doc, "ulg-liste") THEN {<<"LG">> \o l : l \in LgLeafSet(doc)}
    ELSE IF Has(doc, "positionen") THEN {<<"ULG">> \o l : l \in UlgLeafSet(doc)}
    ELSE {<<"GT">> \o l : l \in GtLeafSet(doc)}

Code001101 == <<"0", "0", "1", "1", "0", "1">>

Code001103A == <<"0", "0", "1", "1", "0", "3", "A">>

LettersOf(gt) ==
    [i \in DOMAIN FolgepositionenOf(gt) |-> IdOf(FolgepositionenOf(gt)[i], "Folgeposition")]

\* C1: on the LG with ULG 11 holding Grundtext 01 (A, B, C) and Grundtext 03
\* (A, B), keep with the numbers 001101 and 001103A yields ULG 11 only, holding
\* Grundtext 01 whole with A, B and C, and Grundtext 03 with Folgeposition A
\* only.
C1_KeepWholeAndPartial ==
    (call.op = "keep" /\ root \in ExampleLgs /\ call.codes = <<Code001101, Code001103A>>) =>
        /\ err = ""
        /\ Remove(out, "ulg-liste") = Remove(root, "ulg-liste")
        /\ Len(UlgsOf(out)) = 1
        /\ LET ulg == UlgsOf(out)[1]
               gts == GrundtexteOf(ulg)
           IN  /\ HasNr(ulg, "11")
               /\ \E u \in Range(UlgsOf(root)) :
                    /\ SetGrundtexts(u, <<>>) = SetGrundtexts(ulg, <<>>)
                    /\ Len(gts) = 2
                    /\ HasNr(gts[1], "01")
                    /\ gts[1] \in Range(GrundtexteOf(u))
                    /\ LettersOf(gts[1]) = <<"A", "B", "C">>
                    /\ HasNr(gts[2], "03")
                    /\ \E g \in Range(GrundtexteOf(u)) :
                         /\ LettersOf(g) = <<"A", "B">>
                         /\ gts[2] = Put(g, "folgeposition",
                                         List(<<FolgepositionenOf(g)[1]>>))

\* the call of C1 on the LG that holds a second ULG and a third Grundtext
C1_Witness ==
    /\ call.op = "keep"
    /\ root \in ExampleLgs
    /\ call.codes = <<Code001101, Code001103A>>
    /\ Len(UlgsOf(root)) = 2
    /\ Len(UlgsOf(out)) = 1
    /\ LettersOf(GrundtexteOf(UlgsOf(out)[1])[2]) = <<"A">>

\* C2: the leaf positions of the result of zoom and of keep, identified by
\* their ULG / Grundtext / letter path, are a subset of those of the input:
\* neither operation invents, duplicates or moves a position.
C2_LeavesAreSubset ==
    call.op \in {"zoom", "keep"} => LeafPositions(out) \subseteq LeafPositions(root)

\* a zoom on a Folgeposition that keeps some leaf positions and drops others
C2_Witness ==
    /\ call.op = "zoom"
    /\ call.type = "Folgeposition"
    /\ Level(root) = "LG"
    /\ Len(UlgsOf(root)) = 2
    /\ LeafPositions(out) # {}
    /\ LeafPositions(out) # LeafPositions(root)
    /\ LeafPositions(out) \subseteq LeafPositions(root)

InsertAt(seq, j, x) == SubSeq(seq, 1, j) \o <<x>> \o SubSeq(seq, j + 1, Len(seq))

\* C7: repeating a number that is already in the list does not change the
\* result of keep: the result for the list with the number said once more at
\* any later place, and for the list with a repetition taken out, is the
\* result for the list itself; in particular keep(root, [c, c]) is
\* keep(root, [c]).
C7_RepeatedCodeChangesNothing ==
    call.op = "keep" =>
        \A i \in DOMAIN call.codes : \A j \in i..Len(call.codes) :
            /\ filter_json_by_full_nr(root, InsertAt(call.codes, j, call.codes[i]))
                 = [val |-> out, err |-> err]
            /\ (i < j /\ call.codes[i] = call.codes[j]) =>
                 filter_json_by_full_nr(root, RemoveAt(call.codes, j))
                   = [val |-> out, err |-> err]

\* keep with the same Folgeposition number twice, on a Grundtext that holds
\* the letter and another one
C7_Witness ==
    /\ call.op = "keep"
    /\ Len(call.codes) = 2
    /\ call.codes[1] = call.codes[2]
    /\ Len(call.codes[1]) = 7
    /\ Len(FpNodes(root)) = 2
    /\ Len(GtNodes(root)) = 1
    /\ Len(FpNodes(out)) = 1
    /\ filter_json_by_full_nr(root, <<call.codes[1]>>).val = out

\* a zoom whose target type is not strictly below the level of its root
IncompatibleZoom ==
    /\ call.op = "zoom"
    /\ Level(root) \in {"LG", "ULG", "Grundtext"}
    /\ call.type \notin TypesBelow(Level(root))

\* C9 as the specification states it: a zoom with a target type that is
\* incompatible with the shape of the root signals InvalidTargetType and
\* returns no tree.
C9_InvalidTargetSignalsError ==
    IncompatibleZoom => (err = "InvalidTargetType" /\ out = NoneV)

\* C9: a zoom with a target type that is incompatible with the shape of the
\* root raises nothing and returns the root as it was given.
C9_InvalidTargetReturnsInput ==
    IncompatibleZoom => (err = "" /\ out = root)

\* a Grundtext-rooted document with Folgepositionen asked for a Grundtext
C9_Witness ==
    /\ IncompatibleZoom
    /\ Level(root) = "Grundtext"
    /\ call.type = "Grundtext"
    /\ Len(FpNodes(root)) = 2
    /\ out = root
    /\ err = ""

InScope(node, scope) == scope = NoneV \/ HasNr(node, Str(scope))

\* a node of the type carries the value, under ancestors inside the scopes
Found(doc, type, value, ulg_scope, gt_scope) ==
    LET FpIn(g) == \E f \in Range(FolgepositionenOf(g)) : IdOf(f, "Folgeposition") = value
        GtIn(u) == \E g \in Range(GrundtexteOf(u)) : HasNr(g, value)
        FpUnder(u) == \E g \in Range(GrundtexteOf(u)) : InScope(g, gt_scope) /\ FpIn(g)
    IN
    CASE Level(doc) = "LG" /\ type = "ULG" -> \E u \in Range(UlgsOf(doc)) : HasNr(u, value)
      [] Level(doc) = "LG" /\ type = "Grundtext" ->
           \E u \in Range(UlgsOf(doc)) : InScope(u, ulg_scope) /\ GtIn(u)
      [] Level(doc) = "LG" /\ type = "Folgeposition" ->
           \E u \in Range(UlgsOf(doc)) : InScope(u, ulg_scope) /\ FpUnder(u)
      [] Level(doc) = "ULG" /\ type = "Grundtext" -> GtIn(doc)
      [] Level(doc) = "ULG" /\ type = "Folgeposition" -> FpUnder(doc)
      [] Level(doc) = "Grundtext" /\ type = "Folgeposition" -> FpIn(doc)
      [] OTHER -> FALSE

\* the root with its container emptied
Emptied(doc) ==
    CASE Level(doc) = "LG" ->
           Put(doc, "ulg-liste", Put(Get(doc, "ulg-liste"), "ulg", List(<<>>)))
      [] Level(doc) = "ULG" ->
           Put(doc, "positionen", Put(Get(doc, "positionen"), "grundtextnr", List(<<>>)))
      [] Level(doc) = "Grundtext" -> Put(doc, "folgeposition", List(<<>>))
      [] OTHER -> doc

----------------------------------------------------------------------------
(* Reconstruction from storage.                                            *)

Distinct(seq) == \A i, j \in DOMAIN seq : i # j => seq[i] # seq[j]

\* no two siblings of a document carry the same number or letter
UniqueSiblings(lg) ==
    /\ Distinct([i \in DOMAIN UlgsOf(lg) |-> IdOf(UlgsOf(lg)[i], "ULG")])
    /\ \A u \in Range(UlgsOf(lg)) :
         /\ Distinct([i \in DOMAIN GrundtexteOf(u) |-> IdOf(GrundtexteOf(u)[i], "Grundtext")])
         /\ \A g \in Range(GrundtexteOf(u)) : Distinct(LettersOf(g))

\* every row of the payload was stored, the storage answered, and the list
\* holds well-formed numbers, all of the LG under test
FreshSingleLgRecon ==
    /\ call.op = "recon"
    /\ call.storage = "ok"
    /\ call.no_embedding = 0
    /\ call.failed_chunk = 0
    /\ UniqueSiblings(root)
    /\ \E i \in DOMAIN call.codes : WellFormed(call.codes[i])
    /\ \A i \in DOMAIN call.codes :
         WellFormed(call.codes[i]) => Join(SubSeq(call.codes[i], 1, 2)) = Str(Get(root, "@_nr"))

\* C8: for numbers of one LG and the rows that process_and_store_data wrote for
\* an LG document, fetch_and_filter_lg_by_position_numbers_v2 returns, up to
\* canonical key order, the document that filter_json_by_full_nr returns on the
\* original: the same ULGs, Grundtexts and Folgepositionen in the same order.
C8_ReconstructionEqualsKeep ==
    FreshSingleLgRecon =>
        /\ err = ""
        /\ _preserve_json_order(out)
             = _preserve_json_order(filter_json_by_full_nr(root, call.codes).val)

----------------------------------------------------------------------------
(* Keep: empty lists, numbers of entities the document does not hold,      *)
(* malformed numbers.                                                      *)

\* C11: keep with an empty list of numbers returns the LG with its ULG list
\* emptied: the result has no ULG, the keys of the LG and of its "ulg-liste"
\* in their places, and every other field of the LG with the value it has in
\* the input; no exception is raised, and the wrapper
\* filter_lg_by_position_numbers returns the same.
C11_EmptyListEmptiesUlgList ==
    (call.op = "keep" /\ call.codes = <<>>) =>
        /\ err = ""
        /\ UlgsOf(out) = <<>>
        /\ Keys(out) = Keys(root)
        /\ \A k \in Range(Keys(root)) \ {"ulg-liste"} : Get(out, k) = Get(root, k)
        /\ Has(root, "ulg-liste") =>
             /\ Keys(Get(out, "ulg-liste")) = Keys(Get(root, "ulg-liste"))
             /\ Remove(Get(out, "ulg-liste"), "ulg") = Remove(Get(root, "ulg-liste"), "ulg")
        /\ filter_lg_by_position_numbers(root, <<>>) = [val |-> out, err |-> err]

\* keep with an empty list on an LG that holds two ULGs with positions
C11_Witness ==
    /\ call.op = "keep"
    /\ call.codes = <<>>
    /\ Len(UlgNodes(root)) = 2
    /\ Len(FpNodes(root)) = 2
    /\ Has(out, "ulg-liste")
    /\ Get(Get(out, "ulg-liste"), "ulg") = List(<<>>)
    /\ Get(out, "lg-eigenschaften") = Get(root, "lg-eigenschaften")

Code001101A == <<"0", "0", "1", "1", "0", "1", "A">>

Missing(lg, nr) ==
    /\ ReMatch(nr).ok
    /\ ~\E u \in Range(UlgsOf(lg)) :
          /\ HasNr(u, ReMatch(nr).groups[2])
          /\ \E g \in Range(GrundtexteOf(u)) : HasNr(g, ReMatch(nr).groups[3])

\* C13: on a well-formed LG, a number whose ULG or Grundtext the LG does not
\* hold is skipped: keep raises no exception and returns what it returns for
\* the list without that number.
C13_MissingCodeSkipped ==
    (call.op = "keep" /\ root \in Lgs) =>
        \A i \in DOMAIN call.codes :
            Missing(root, call.codes[i]) =>
                /\ err = ""
                /\ filter_json_by_full_nr(root, RemoveAt(call.codes, i))
                     = [val |-> out, err |-> err]

\* C14: after keep, every ULG of the result holds at least one Grundtext.
C14_NoUlgWithoutGrundtext ==
    (call.op = "keep" /\ root \in Lgs /\ err = "") =>
        \A u \in Range(UlgsOf(out)) : GrundtexteOf(u) # <<>>

----------------------------------------------------------------------------
(* The reconstruction: malformed numbers, empty results, one LG or a list, *)
(* storage failures.                                                       *)

\* texts outside the grammar: too short, a lower-case letter, a line feed
\* after the digits
MalformedTexts ==
    {s \in {<<"0", "0", "1", "1">>,
            <<"0", "0", "1", "1", "0", "1", "b">>,
            <<"0", "0", "1", "1", "0", "1", "\n">>} : ~WellFormed(s)}

\* C15: a malformed number in a list never fails the call and changes nothing:
\* the reconstruction from storage and keep on the document return, for the
\* list with a malformed number put in at any place, what they return for the
\* list itself, and raise no exception.
C15_MalformedCodesDropped ==
    call.op = "recon" =>
        \A m \in MalformedTexts : \A j \in 0..Len(call.codes) :
            /\ fetch_and_filter_lg_by_position_numbers_v2(InsertAt(call.codes, j, m), rows,
                                                          call.storage, call.ties)
                 = [val |-> out, err |-> ""]
            /\ filter_json_by_full_nr(root, InsertAt(call.codes, j, m))
                 = [val |-> filter_json_by_full_nr(root, call.codes).val, err |-> ""]

\* the LG subtrees a reconstruction hands back: none for {}, the subtree
\* itself, or the members of the list
ReturnedLgs(result) ==
    IF IsList(result) THEN result.c
    ELSE IF result = EmptyDict THEN <<>>
    ELSE <<result>>

\* every row of the ingest was stored
AllStored == call.no_embedding = 0 /\ call.failed_chunk = 0

\* C16: the reconstruction never returns an LG whose filtered ULG list is
\* empty, alone or in a list: every LG of its result holds at least one ULG.
C16_NoLgWithoutUlg ==
    (call.op = "recon" /\ AllStored) =>
        \A i \in DOMAIN ReturnedLgs(out) : UlgsOf(ReturnedLgs(out)[i]) # <<>>

\* the LG numbers that the well-formed numbers of a list name
LgsNamed(codes) ==
    {Join(SubSeq(codes[i], 1, 2)) : i \in {k \in DOMAIN codes : WellFormed(codes[k])}}

\* the LG numbers among them of which the storage holds an LG row
LgsRead(codes) ==
    {Str(rows[i].lg_nr) : i \in {k \in DOMAIN rows : rows[k].entity_type = "LG"}}
    \cap LgsNamed(codes)

\* a list of LGs in strictly ascending order of LG number
AscendingLgs(lgs) ==
    \A i, j \in DOMAIN lgs : i < j => Rank(Get(lgs[i], "@_nr")) < Rank(Get(lgs[j], "@_nr"))

\* C17 as stated: the reconstruction returns a single subtree when the
\* well-formed numbers name exactly one LG, and otherwise a list sorted
\* ascending by LG number without a repeated LG.
C17_SingleIffOneLgNamed ==
    (call.op = "recon" /\ call.storage = "ok" /\ LgsNamed(call.codes) # {}) =>
        IF Cardinality(LgsNamed(call.codes)) = 1
        THEN IsDict(out)
        ELSE IsList(out) /\ AscendingLgs(out.c)

\* C17, amended: what decides is the number of LGs read from storage for the
\* numbers. With storage answering, the reconstruction returns {} when no LG
\* row is read, the single subtree of the LG when one is read, and otherwise
\* a list, sorted strictly ascending by LG number, of subtrees of LGs read
\* that hold at least one ULG.
C17_SingleIffOneLgRead ==
    (call.op = "recon" /\ call.storage = "ok") =>
        /\ err = ""
        /\ CASE Cardinality(LgsRead(call.codes)) = 0 -> out = EmptyDict
             [] Cardinality(LgsRead(call.codes)) = 1 ->
                    IsDict(out) /\ Str(Get(out, "@_nr")) \in LgsRead(call.codes)
             [] OTHER ->
                    /\ IsList(out)
                    /\ AscendingLgs(out.c)
                    /\ \A i \in DOMAIN out.c :
                         /\ Str(Get(out.c[i], "@_nr")) \in LgsRead(call.codes)
                         /\ UlgsOf(out.c[i]) # <<>>

\* numbers of two LGs with the higher LG named first and both LGs stored: the
\* result is the list of the two subtrees
C17_Witness ==
    /\ call.op = "recon"
    /\ call.storage = "ok"
    /\ Len(call.codes) = 2
    /\ Join(SubSeq(call.codes[1], 1, 2)) = "01"
    /\ LgsRead(call.codes) = {"00", "01"}
    /\ IsList(out)
    /\ Len(out.c) = 2
    /\ HasNr(out.c[1], "00")
    /\ HasNr(out.c[2], "01")

\* C18: when the storage fails (no credentials, or any of the four reads
\* raises), the reconstruction is given up and {} is returned, never a tree
\* assembled in part, and no exception leaves the function; nothing else
\* gives a reconstruction up: when the storage answers and holds an LG named
\* by the numbers, a tree or a list is returned.
C18_OnlyStorageFailureAborts ==
    call.op = "recon" =>
        /\ err = ""
        /\ call.storage # "ok" => out = EmptyDict
        /\ (call.storage = "ok" /\ LgsRead(call.codes) # {}) =>
             /\ out # EmptyDict
             /\ \A i \in DOMAIN ReturnedLgs(out) :
                  Str(Get(ReturnedLgs(out)[i], "@_nr")) \in LgsRead(call.codes)

\* a read raises although the storage holds the LG, its ULG and its Grundtext
\* for the number asked
C18_Witness ==
    /\ call.op = "recon"
    /\ call.storage = "fetch_error"
    /\ AllStored
    /\ LgsRead(call.codes) = {"00"}
    /\ Len(GtNodes(root)) = 2
    /\ \E i \in DOMAIN rows : rows[i].entity_type = "Grundtext"
    /\ out = EmptyDict
    /\ fetch_and_filter_lg_by_position_numbers_v2(call.codes, rows, "ok", call.ties).val
         # EmptyDict

----------------------------------------------------------------------------
(* What the endpoints hand back.                                           *)

Canonical(tree) == _preserve_json_order(tree) = tree

\* C19: every subtree handed back by the endpoints for zoom and for keep is
\* canonical, that is equal to its own canonicalization, here for documents
\* that are canonical themselves.
C19_ResultsCanonical ==
    Canonical(root) =>
        /\ call.op = "zoom" =>
             \A r \in {filter_entity_endpoint(root, call.type, call.value, call.ulg, call.gt)} :
                r.err = "" => Canonical(r.val)
        /\ call.op = "keep" =>
             \A r \in {filter_full_nr_endpoint(root, call.codes)} :
                r.err = "" => Canonical(r.val)

----------------------------------------------------------------------------
(* Reuse of one document over several calls of zoom and keep. The actions  *)
(* hand the caller's tree to the filter and take it back as the filter     *)
(* leaves it.                                                              *)

MaxCalls == 3

\* the filters write on the tree they are given, as if it were not copied
zoom_input_written(json_input, target_entity_type, target_value, target_ulg_nr, target_grundtext_nr) ==
    filter_json_entity(json_input, target_entity_type, target_value, target_ulg_nr,
                       target_grundtext_nr).val

keep_input_written(json_input, full_nrs_to_keep) ==
    IF filter_json_by_full_nr(json_input, full_nrs_to_keep).err = ""
    THEN filter_json_by_full_nr(json_input, full_nrs_to_keep).val
    ELSE json_input

\* json_input after filter_json_entity has returned: the function copies it
\* with copy.deepcopy first and assigns to the copy only
zoom_input_after(json_input, target_entity_type, target_value, target_ulg_nr, target_grundtext_nr) ==
    json_input

\* json_input after filter_json_by_full_nr has returned: result, result_ulg,
\* new_gt and every Grundtext and Folgeposition appended are deep copies, and
\* target_ulg and target_gt, which point into json_input, are only read
keep_input_after(json_input, full_nrs_to_keep) == json_input

\* an LG of the example, a ULG, a Grundtext, and documents whose shape or key
\* order zoom and keep do not expect
ReuseDocs ==
    ExampleLgs
    \cup {SampleUlg, SampleGt, Remove(SampleGt, "grundtext"), NrFirst(SampleUlg),
          MkLg("00", <<[nr |-> "11",
                        gts |-> <<[nr |-> "01", und |-> TRUE, fps |-> <<>>]>>]>>)}

ReuseCodeLists ==
    {<<>>} \cup {<<c>> : c \in CodeTexts}
    \cup {<<Code001101A, Code001101>>, <<Code001101, Code001103A>>}

\* the tree the caller held before its first call
Original == IF call = NoCall THEN root ELSE call.original

CallsMade == IF call = NoCall THEN 0 ELSE call.n

ZoomReused ==
    /\ CallsMade < MaxCalls
    /\ \E type \in TargetTypes, ulg \in ScopeUlgs :
      \E value \in TargetValues(type) :
        LET r == filter_json_entity(root, type, value, ulg, NoneV) IN
        /\ call' = [op |-> "zoom", type |-> type, value |-> value, ulg |-> ulg, gt |-> NoneV,
                    n |-> CallsMade + 1, original |-> Original]
        /\ out' = r.val
        /\ err' = r.err
        /\ root' = zoom_input_after(root, type, value, ulg, NoneV)
        /\ UNCHANGED <<text, rows>>

KeepReused ==
    /\ CallsMade < MaxCalls
    /\ \E codes \in ReuseCodeLists :
        LET r == filter_json_by_full_nr(root, codes) IN
        /\ call' = [op |-> "keep", codes |-> codes,
                    n |-> CallsMade + 1, original |-> Original]
        /\ out' = r.val
        /\ err' = r.err
        /\ root' = keep_input_after(root, codes)
        /\ UNCHANGED <<text, rows>>

InitReuse ==
    /\ root \in ReuseDocs
    /\ call = NoCall
    /\ out = NoneV
    /\ err = ""
    /\ text = <<>>
    /\ rows = <<>>

NextReuse == ZoomReused \/ KeepReused

SpecReuse == InitReuse /\ [][NextReuse]_vars

----------------------------------------------------------------------------
(* The four reads of the reconstruction as steps of their own: issued in   *)
(* any order, any of them again, against a table that does not change.     *)

MaxReads == 5

\* step 1: the LG numbers of the well-formed position numbers
parsed_lg_nrs(position_numbers) ==
    {Str(Get(get_position_info(position_numbers[i]), "lg_nr")) :
        i \in {k \in DOMAIN position_numbers :
                 validate_position_number_format(position_numbers[k])}}

EntityTypes == {"LG", "ULG", "Grundtext", "Folgeposition"}

\* the rows one read returns: the LG rows in the order the storage chooses,
\* the others sorted by their number
read_records(table, entity_type, lg_nrs, ties) ==
    CASE entity_type = "LG" -> Select(table, "LG", lg_nrs, ties)
      [] entity_type = "ULG" -> OrderBy(Select(table, "ULG", lg_nrs, ties), "ulg_nr")
      [] entity_type = "Grundtext" ->
            OrderBy(Select(table, "Grundtext", lg_nrs, ties), "grundtext_nr")
      [] OTHER -> OrderBy(Select(table, "Folgeposition", lg_nrs, ties), "position_nr")

\* a read that is made again adds its rows to those read before
records_appended(previous, data) == previous \o data

\* "xx_records = supabase.table(...)...execute().data": the name holds the
\* rows of the last read
records_assigned(previous, data) == data

\* the LGs of the reconstruction that hold two Grundtexte and two
\* Folgepositionen, stored beside another LG
ReadLgs == {lg \in ReconLgs : Len(GtNodes(lg)) = 2 /\ Len(FpNodes(lg)) = 2}

ReadCodeLists ==
    {<<Code001101, <<"0", "0", "1", "2", "0", "1">>>>,
     <<<<"0", "1", "1", "1", "0", "1">>, Code001101>>,
     <<<<"0", "0", "1", "1", "0", "3">>, <<"0", "0", "1", "1", "0", "1", "B">>>>}

\* the function is entered: the numbers are parsed and no read is made yet
Begin ==
    /\ call = NoCall
    /\ \E codes \in ReadCodeLists :
        /\ parsed_lg_nrs(codes) # {}
        /\ call' = [op |-> "reading", codes |-> codes, n |-> 0,
                    records |-> [t \in EntityTypes |-> <<>>],
                    ties |-> [t \in EntityTypes |-> "none"]]
    /\ UNCHANGED <<root, out, err, text, rows>>

\* one read completes, for the first time or again
Read ==
    /\ call.op = "reading"
    /\ call.n < MaxReads
    /\ \E type \in EntityTypes, ties \in {"insertion", "reverse"} :
        call' = [call EXCEPT
                   !.n = @ + 1,
                   !.records[type] =
                       records_assigned(@, read_records(rows, type, parsed_lg_nrs(call.codes),
                                                        ties)),
                   !.ties[type] = ties]
    /\ UNCHANGED <<root, out, err, text, rows>>

\* steps 3 and 4 once every read has completed
Assemble ==
    /\ call.op = "reading"
    /\ \A t \in EntityTypes : call.ties[t] # "none"
    /\ \E r \in {reconstruct(call.codes, call.records["LG"], call.records["ULG"],
                             call.records["Grundtext"], call.records["Folgeposition"])} :
        /\ out' = r.val
        /\ err' = r.err
    /\ call' = [op |-> "assembled", codes |-> call.codes, n |-> call.n, ties |-> call.ties]
    /\ UNCHANGED <<root, text, rows>>

\* the table after process_and_store_data has stored another LG and the LG
InitReads ==
    /\ root \in ReadLgs
    /\ rows = process_and_store_data(<<>>, <<OtherLg, root>>, 0, 0).rows
    /\ call = NoCall
    /\ out = NoneV
    /\ err = ""
    /\ text = <<>>

NextReads == Begin \/ Read \/ Assemble

SpecReads == InitReads /\ [][NextReads]_vars

\* C21: the four reads carry no ordering dependency. Against an unchanged
\* table, whatever the order in which the reads completed and however often
\* a read was made again, the tree returned is the tree of the function that
\* makes the four reads once and in its own order: for a storage that
\* answers ties in one way, and, when no two siblings of the stored LG carry
\* the same number, for any way each single read answers them.
C21_ReadOrderIndependent ==
    call.op = "assembled" =>
        /\ \A t \in {"insertion", "reverse"} :
             (\A e \in EntityTypes : call.ties[e] = t) =>
                 fetch_and_filter_lg_by_position_numbers_v2(call.codes, rows, "ok", t)
                   = [val |-> out, err |-> err]
        /\ UniqueSiblings(root) =>
             fetch_and_filter_lg_by_position_numbers_v2(call.codes, rows, "ok", "insertion")
               = [val |-> out, err |-> err]

\* five reads, so one of them made twice, with numbers of two LGs, and a list
\* of two LGs returned
C21_Witness ==
    /\ call.op = "assembled"
    /\ call.n = 5
    /\ \A e \in EntityTypes : call.ties[e] = "reverse"
    /\ IsList(out)
    /\ Len(out.c) = 2
    /\ Len(FpNodes(out.c[1])) > 0

----------------------------------------------------------------------------
(* Keep and the reconstruction: which numbers address what is returned.    *)

\* a number of the list is well formed and names the LG, the ULG and the
\* Grundtext
Addressed(codes, lg_nr, ulg_nr, gt_nr) ==
    \E i \in DOMAIN codes :
        /\ WellFormed(codes[i])
        /\ Join(SubSeq(codes[i], 1, 2)) = lg_nr
        /\ Join(SubSeq(codes[i], 3, 4)) = ulg_nr
        /\ Join(SubSeq(codes[i], 5, 6)) = gt_nr

\* C22: keep is exact in the LG component: every Grundtext of the result is
\* addressed by a number of the list whose LG, ULG and Grundtext components
\* are the number of the LG given and the numbers of the ULG and the
\* Grundtext; a number of another LG contributes nothing.
C22_KeepExactInLg ==
    (call.op = "keep" /\ root \in Lgs /\ err = "") =>
        \A u \in Range(UlgsOf(out)) : \A g \in Range(GrundtexteOf(u)) :
            Addressed(call.codes, Str(Get(root, "@_nr")), Str(Get(u, "@_nr")),
                      Str(Get(g, "@_nr")))

\* C23: the reconstruction filters each assembled LG with exactly the
\* numbers of that LG, whatever rows the storage holds: every Grundtext of
\* the result, and so every Folgeposition in it, is addressed by a number of
\* the list with the same LG, ULG and Grundtext components.
C23_ReconExactInLg ==
    (call.op = "recon") =>
        \A lg \in Range(ReturnedLgs(out)) : \A u \in Range(UlgsOf(lg)) :
            \A g \in Range(GrundtexteOf(u)) :
                Addressed(call.codes, Str(Get(lg, "@_nr")), Str(Get(u, "@_nr")),
                          Str(Get(g, "@_nr")))

----------------------------------------------------------------------------
(* The filter of one entity: levels, scopes and the first match.           *)

\* the level at which filter_json_entity treats a document, in the names of
\* _get_object_type
ZoomLevel(json) ==
    IF is_lg(json) THEN "LG"
    ELSE IF is_ulg(json) THEN "ULG"
    ELSE IF is_grundtext(json) THEN "GT"
    ELSE "UNKNOWN"

\* C24: the filter of one entity classifies its document as the ordering of
\* keys does: it treats it as an LG, a ULG or a Grundtext exactly when
\* _get_object_type says LG, ULG or GT, so a Grundtext by _get_object_type,
\* one without base text included, asked for a Folgeposition comes back with
\* at most that one Folgeposition.
C24_ZoomClassifiesAsCodec ==
    call.op = "zoom" =>
        /\ \A level \in {"LG", "ULG", "GT"} :
              ZoomLevel(root) = level <=> _get_object_type(root) = level
        /\ (_get_object_type(root) = "GT" /\ call.type = "Folgeposition") =>
              FolgepositionenOf(out)
                  = _find_and_filter_single(GetOr(root, "folgeposition", List(<<>>)),
                                            "@_ftnr", call.value).c

Scoped(nodes, scope) == LET In(n) == InScope(n, scope) IN SelectSeq(nodes, In)

\* the nodes of the type in the branches of a document that the scopes let
\* the search visit, in depth-first document order
VisitedNodes(doc, type, ulg_scope, gt_scope) ==
    LET FpsUnder(gts) ==
            Flatten([i \in DOMAIN Scoped(gts, gt_scope) |->
                        FolgepositionenOf(Scoped(gts, gt_scope)[i])])
        ulgs == Scoped(UlgsOf(doc), ulg_scope)
    IN
    CASE Level(doc) = "LG" /\ type = "ULG" -> UlgsOf(doc)
      [] Level(doc) = "LG" /\ type = "Grundtext" ->
           Flatten([i \in DOMAIN ulgs |-> GrundtexteOf(ulgs[i])])
      [] Level(doc) = "LG" /\ type = "Folgeposition" ->
           Flatten([i \in DOMAIN ulgs |-> FpsUnder(GrundtexteOf(ulgs[i]))])
      [] Level(doc) = "ULG" /\ type = "Grundtext" -> GrundtexteOf(doc)
      [] Level(doc) = "ULG" /\ type = "Folgeposition" -> FpsUnder(GrundtexteOf(doc))
      [] Level(doc) = "Grundtext" /\ type = "Folgeposition" -> FolgepositionenOf(doc)
      [] OTHER -> <<>>

\* the visited nodes that carry the value, in document order
Matches(doc, type, value, ulg_scope, gt_scope) ==
    LET Is(n) == IdOf(n, type) = value
    IN  SelectSeq(VisitedNodes(doc, type, ulg_scope, gt_scope), Is)

\* C26: the first match wins. When several visited nodes of the target type
\* carry the value (siblings with the same number, or the same number under
\* different ancestors), the result holds exactly one node of the type, the
\* first of them in depth-first document order; no later match is kept.
C26_FirstMatchWins ==
    (/\ call.op = "zoom"
     /\ call.type \in TypesBelow(Level(root))
     /\ Matches(root, call.type, call.value, call.ulg, call.gt) # <<>>)
    => NodesOfType(out, call.type)
         = <<Matches(root, call.type, call.value, call.ulg, call.gt)[1]>>

\* an LG with the Grundtext number asked for under both of its ULGs: the
\* Grundtext of the first ULG is the one returned
C26_Witness ==
    /\ call.op = "zoom"
    /\ call.type = "Grundtext"
    /\ Level(root) = "LG"
    /\ Len(UlgsOf(root)) = 2
    /\ Len(Matches(root, call.type, call.value, call.ulg, call.gt)) >= 2
    /\ Matches(root, call.type, call.value, call.ulg, call.gt)[1]
         # Matches(root, call.type, call.value, call.ulg, call.gt)[2]
    /\ Matches(SetUlgs(root, <<UlgsOf(root)[2]>>), call.type, call.value, call.ulg, call.gt) # <<>>
    /\ Matches(SetUlgs(root, <<UlgsOf(root)[1]>>), call.type, call.value, call.ulg, call.gt) # <<>>
    /\ GtNodes(out)
         = <<Matches(SetUlgs(root, <<UlgsOf(root)[1]>>), call.type, call.value, call.ulg, call.gt)[1]>>

----------------------------------------------------------------------------
(* The key order in full.                                                  *)

\* the keys a dict is to come out with: for a recognized shape the keys of
\* its fixed sequence that the dict holds, in that sequence, and then the
\* other keys of the dict in their original order; for any other dict its
\* keys as they are
ExpectedKeys(obj) ==
    LET fixed == KEY_ORDER_MAP(_get_object_type(obj))
    IN  SelectSeq(fixed, LAMBDA key : key \in Range(Keys(obj)))
          \o SelectSeq(Keys(obj), LAMBDA key : key \notin Range(fixed))

\* result is obj with the expected keys at every nesting level, the same
\* lists in the same order, and the same atoms
RECURSIVE OrderedAs(_, _)
OrderedAs(obj, result) ==
    IF IsDict(obj)
    THEN /\ IsDict(result)
         /\ Keys(result) = ExpectedKeys(obj)
         /\ Len(Keys(result)) = Len(Keys(obj))
         /\ Range(Keys(result)) = Range(Keys(obj))
         /\ \A key \in Range(Keys(obj)) : OrderedAs(Get(obj, key), Get(result, key))
    ELSE IF IsList(obj)
    THEN /\ IsList(result)
         /\ Len(result.c) = Len(obj.c)
         /\ \A i \in DOMAIN obj.c : OrderedAs(obj.c[i], result.c[i])
    ELSE result = obj

\* C27: _preserve_json_order emits, for a dict of a recognized shape, the
\* keys of the fixed sequence that are present, in that sequence, followed by
\* the remaining keys in their original relative order, and for any other
\* dict the keys in their original order; at every nesting level the result
\* has exactly the keys of the input and lists of the same length and order:
\* nothing is added, dropped or repeated.
C27_CanonicalOrderExact ==
    call.op = "canon" => OrderedAs(root, out)

\* a list whose first element is a position with a key outside the fixed
\* sequence written first: the position comes out with the key last
C27_Witness ==
    /\ call.op = "canon"
    /\ IsList(root)
    /\ IsDict(root.c[1])
    /\ _get_object_type(root.c[1]) = "POS"
    /\ Len(Keys(root.c[1])) = 3
    /\ Keys(root.c[1])[1] = "x"
    /\ Keys(out.c[1])[3] = "x"
    /\ Keys(out.c[1])[1] = "pos-eigenschaften"

----------------------------------------------------------------------------
(* The order of what keep returns.                                         *)

\* a sequence without its repetitions: each element where it first stands
RECURSIVE FirstOccurrences(_)
FirstOccurrences(s) ==
    IF s = <<>> THEN <<>>
    ELSE LET before == FirstOccurrences(SubSeq(s, 1, Len(s) - 1))
         IN  IF s[Len(s)] \in Range(before) THEN before ELSE Append(before, s[Len(s)])

\* the numbers of a list of nodes, in the order of the list
NrsOf(nodes) == [i \in DOMAIN nodes |-> Str(Get(nodes[i], "@_nr"))]

\* the ULG components of the well-formed numbers whose ULG the LG holds, in
\* the order of the numbers
UlgsAskedFor(lg, codes) ==
    LET Known(code) == WellFormed(code)
                         /\ Join(SubSeq(code, 3, 4)) \in Range(NrsOf(UlgsOf(lg)))
        known == SelectSeq(codes, Known)
    IN  [i \in DOMAIN known |-> Join(SubSeq(known[i], 3, 4))]

\* the Grundtext components of the well-formed numbers of one ULG whose
\* Grundtext the first ULG of the LG with that number holds, in the order of
\* the numbers
GrundtexteAskedFor(lg, codes, ulg_nr) ==
    LET first_ulg == CHOOSE i \in DOMAIN UlgsOf(lg) :
                        /\ HasNr(UlgsOf(lg)[i], ulg_nr)
                        /\ \A j \in 1..(i - 1) : ~HasNr(UlgsOf(lg)[j], ulg_nr)
        Known(code) == /\ WellFormed(code)
                       /\ Join(SubSeq(code, 3, 4)) = ulg_nr
                       /\ Join(SubSeq(code, 5, 6))
                            \in Range(NrsOf(GrundtexteOf(UlgsOf(lg)[first_ulg])))
        known == SelectSeq(codes, Known)
    IN  [i \in DOMAIN known |-> Join(SubSeq(known[i], 5, 6))]

IsSubsequence(s, t) ==
    \E f \in [DOMAIN s -> DOMAIN t] :
        /\ \A i, j \in DOMAIN s : i < j => f[i] < f[j]
        /\ \A i \in DOMAIN s : t[f[i]] = s[i]

\* C29: the Folgepositionen keep their authoring order through keep: for
\* every Grundtext of the result, its Folgepositionen stand in the relative
\* order they have in the Grundtext of the LG given, for every order of the
\* numbers (letter B asked for before letter A included).
C29_FolgepositionenInAuthoringOrder ==
    (call.op = "keep" /\ root \in Lgs /\ err = "") =>
        \A u \in Range(UlgsOf(out)) : \A g \in Range(GrundtexteOf(u)) :
            \E ru \in Range(UlgsOf(root)) : \E rg \in Range(GrundtexteOf(ru)) :
                /\ Get(ru, "@_nr") = Get(u, "@_nr")
                /\ Get(rg, "@_nr") = Get(g, "@_nr")
                /\ IsSubsequence(FolgepositionenOf(g), FolgepositionenOf(rg))

----------------------------------------------------------------------------
(* The children of the assembled LGs.                                      *)

\* the records that the four reads of a reconstruction return
RecordsRead(codes, table, ties) ==
    [t \in EntityTypes |-> read_records(table, t, parsed_lg_nrs(codes), ties)]

\* the value of a column in the records of a type whose other columns are
\* those of the key, in the order of the records
ColumnOfGroup(records, key, column) ==
    LET InGroup(r) == \A i \in DOMAIN key : Str(r[key[i][1]]) = key[i][2]
        group == SelectSeq(records, InGroup)
    IN  [i \in DOMAIN group |-> Str(group[i][column])]

\* the children of an assembled LG are the groups of the records read
JoinedFromRecords(lg, records) ==
    LET lg_nr == Str(Get(lg, "@_nr")) IN
    /\ Has(Get(lg, "ulg-liste"), "ulg")
    /\ NrsOf(UlgsOf(lg)) = ColumnOfGroup(records["ULG"], <<<<"lg_nr", lg_nr>>>>, "ulg_nr")
    /\ \A u \in Range(UlgsOf(lg)) :
         LET ulg_nr == Str(Get(u, "@_nr")) IN
         /\ Has(Get(u, "positionen"), "grundtextnr")
         /\ NrsOf(GrundtexteOf(u))
              = ColumnOfGroup(records["Grundtext"],
                              <<<<"lg_nr", lg_nr>>, <<"ulg_nr", ulg_nr>>>>, "grundtext_nr")
         /\ \A g \in Range(GrundtexteOf(u)) :
              /\ Has(g, "folgeposition")
              /\ [i \in DOMAIN FolgepositionenOf(g) |->
                     Str(Get(FolgepositionenOf(g)[i], "@_ftnr"))]
                   = ColumnOfGroup(records["Folgeposition"],
                                   <<<<"lg_nr", lg_nr>>, <<"ulg_nr", ulg_nr>>,
                                     <<"grundtext_nr", Str(Get(g, "@_nr"))>>>>,
                                   "position_nr")

\* the document of the LG row of the storage with the number
StoredLg(table, lg_nr) ==
    LET i == CHOOSE k \in DOMAIN table :
                 table[k].entity_type = "LG" /\ Str(table[k].lg_nr) = lg_nr
    IN  LoadJson(table[i].entity_json)

\* C30: in the reconstruction the children joined from the rows win: the
\* ULG list of each assembled LG, the Grundtext list of each of its ULGs and
\* the Folgeposition list of each of its Grundtexte are exactly the groups
\* of the rows read separately, by LG, by LG and ULG, and by LG, ULG and
\* Grundtext, whatever children the document of a stored row embeds; a key
\* with no row gives an empty list.
C30_JoinedChildrenWin ==
    (call.op = "recon" /\ call.storage = "ok" /\ parsed_lg_nrs(call.codes) # {}) =>
        \A records \in {RecordsRead(call.codes, rows, call.ties)} :
          \A lgs \in {lg_data(records["LG"], records["ULG"], records["Grundtext"],
                              records["Folgeposition"]).c} :
            /\ Len(lgs) = Len(records["LG"])
            /\ \A i \in DOMAIN lgs : JoinedFromRecords(lgs[i].v, records)

\* the row of the only ULG of LG 00 was not stored: the LG row embeds the
\* ULG, the assembled LG holds none, and the number of a Grundtext of the
\* ULG returns the LG with an empty ULG list
C30_Witness ==
    /\ call.op = "recon"
    /\ call.storage = "ok"
    /\ call.codes = <<Code001101>>
    /\ \E i \in DOMAIN rows : rows[i].entity_type = "LG" /\ Str(rows[i].lg_nr) = "00"
    /\ \A i \in DOMAIN rows : rows[i].entity_type = "ULG" => Str(rows[i].lg_nr) # "00"
    /\ Len(GtNodes(StoredLg(rows, "00"))) = 2
    /\ IsDict(out)
    /\ HasNr(out, "00")
    /\ UlgsOf(out) = <<>>

=============================================================================
